---- MODULE Spec2Model ----
(***************************************************************************)
(* z3c.pt: the clause layer of the template compiler (clauses.py), the     *)
(* node translator (translation.py) and the code the clauses emit, run by  *)
(* a small-step interpreter of the emitted statements.                     *)
(*                                                                         *)
(* A compilation writes abstract statements into the code stream           *)
(* (stream.code); a render executes them one statement per step.           *)
(***************************************************************************)
EXTENDS Integers, Sequences, FiniteSets, TLC

VARIABLES
    input,      \* the clause arguments / node fields of the scenario
    stream,     \* the code emission stream (CodeIO)
    phase,      \* position of the compilation: "begin", "body", "end", "run"
    rt,         \* per render: pc, env, out, status, err, evals, heap, log
    repeat      \* the repeat registry: loop variable name -> entry

vars == <<input, stream, phase, rt, repeat>>

-----------------------------------------------------------------------------
(* Bounds of the model *)

MaxParts == 3       \* candidates in a Parts list
MaxItems == 3       \* items of a repeated sequence
MaxDepth == 2       \* nested nodes of a scenario
MaxDefines == 2     \* define clauses on the innermost node

\* temporaries the environment has room for: two per define clause and a few
\* for the other clauses
MaxTmp == 2 * (MaxDepth + MaxDefines) + 2

-----------------------------------------------------------------------------
(* Runtime values.  A string is a sequence of characters. *)

None == [t |-> "none", v |-> <<>>, n |-> 0]
Unbound == [t |-> "unbound", v |-> <<>>, n |-> 0]
Str(s) == [t |-> "str", v |-> s, n |-> 0]
Uni(s) == [t |-> "unicode", v |-> s, n |-> 0]
Obj(s) == [t |-> "obj", v |-> s, n |-> 0]
Bool(b) == [t |-> "bool", v |-> IF b THEN <<"True">> ELSE <<"False">>, n |-> 0]
List(s) == [t |-> "list", v |-> s, n |-> 0]
Iter(id) == [t |-> "iter", v |-> <<>>, n |-> id]
Marker == [t |-> "marker", v |-> <<>>, n |-> 0]
\* an output buffer, its write method, and the pair initialize_stream returns
Buf(k) == [t |-> "buf", v |-> <<>>, n |-> k]
BufWrite(k) == [t |-> "bufwrite", v |-> <<>>, n |-> k]
StreamPair(k) == [t |-> "streampair", v |-> <<>>, n |-> k]

TmpName(i) == "_tmp" \o ToString(i)
TmpNames == {TmpName(i) : i \in 1..MaxTmp}
ProgNames == {"a", "b", "c", "d", "i", "_urf", "_result"}
\* the reserved names of config.SYMBOLS that the emitted code binds
SymbolNames == {"_write", "_scope", "_mapping", "_mapping[x]", "_mapping[y]", "_metal",
                "_slot_x", "_slot_y"}
AllNames == ProgNames \cup TmpNames \cup SymbolNames

Renders == {1, 2}

-----------------------------------------------------------------------------
(* Expression results (types.value, types.parts, types.join) *)

Value(f, c, id) == [k |-> "value", f |-> f, c |-> c, id |-> id]
Parts(items) == [k |-> "parts", items |-> items, esc |-> FALSE]
Escape(items) == [k |-> "parts", items |-> items, esc |-> TRUE]
Join(items) == [k |-> "join", items |-> items]
Text(t, s) == [k |-> "text", t |-> t, s |-> s]

ValueNone == Value("const", None, 0)

-----------------------------------------------------------------------------
(* The code stream *)

\* F applied to the value of v: v is computed once, before F uses it
Let(v, F(_)) == CHOOSE r \in {F(x) : x \in {v}} : TRUE

Line(op, tg, x, y, e) == [ind |-> 0, op |-> op, tg |-> tg, x |-> x, y |-> y, e |-> e]

NewStream ==
    [code |-> <<>>, indentation |-> 0, scope |-> << {} >>, t_counter |-> 0,
     queue |-> <<>>]

cook(s) ==
    Let(s, LAMBDA c :
        IF c.queue = <<>> THEN c
        ELSE [c EXCEPT !.code = Append(@, [Line("outlit", <<>>, "", "", c.queue)
                                              EXCEPT !.ind = c.indentation]),
                       !.queue = <<>>])

write(s, l) ==
    Let(cook(s), LAMBDA c :
        [c EXCEPT !.code = Append(@, [l EXCEPT !.ind = c.indentation])])

indent(s, amount) ==
    IF amount > 0 THEN [cook(s) EXCEPT !.indentation = @ + amount] ELSE s

\* mutant: leaving a block does not flush the queued literal output
outdentNoCook(s, amount) ==
    IF amount > 0 THEN [s EXCEPT !.indentation = @ - amount] ELSE s
outdent(s, amount) ==
    IF amount > 0 THEN [cook(s) EXCEPT !.indentation = @ - amount] ELSE s

out(s, string) == [s EXCEPT !.queue = @ \o string]

tmp(s) == TmpName(s.t_counter)

save(s) == [s EXCEPT !.t_counter = @ + 1]

restore(s) == [s EXCEPT !.t_counter = @ - 1]

-----------------------------------------------------------------------------
(* Strings: encoding and escaping *)

\* unicode.encode('utf-8'): the non-ASCII character becomes two bytes
RECURSIVE Utf8Encode(_)
Utf8Encode(s) ==
    IF s = <<>> THEN <<>>
    ELSE (IF Head(s) = "U+F1" THEN <<"xC3", "xB1">> ELSE <<Head(s)>>)
         \o Utf8Encode(Tail(s))

IsAscii(s) == \A i \in 1..Len(s) : s[i] \notin {"U+F1", "xC3", "xB1"}

\* cgi.escape(s, quote): & < > always, the double quote when quote is given
EscapeChar(ch, quote) ==
    CASE ch = "&" -> <<"&", "a", "m", "p", ";">>
      [] ch = "<" -> <<"&", "l", "t", ";">>
      [] ch = ">" -> <<"&", "g", "t", ";">>
      [] ch = "\"" /\ quote -> <<"&", "q", "u", "o", "t", ";">>
      [] OTHER -> <<ch>>

RECURSIVE escape(_, _)
escape(s, quote) ==
    IF s = <<>> THEN <<>>
    ELSE EscapeChar(Head(s), quote) \o escape(Tail(s), quote)

-----------------------------------------------------------------------------
(* clauses.Assign *)

\* Assign.__init__: anything that is not a parts becomes a one-element parts
AssignParts(expr) == IF expr.k = "parts" THEN expr.items ELSE <<expr>>

RECURSIVE AssignBegin(_, _, _), Assign_assign(_, _, _), AssignJoin(_, _, _),
          AssignTry(_, _, _, _)

\* mutant: the temporary of a nested fragment is given back before the format
AssignJoinEarlyRestore(acc, value, i) ==
    IF i > Len(value.items) THEN acc
    ELSE LET part == value.items[i]
         IN  IF part.k \in {"parts", "join"}
             THEN Let(acc, LAMBDA a :
                  Let(save(a.s), LAMBDA s1 :
                      AssignJoin([s |-> restore(AssignBegin(s1, AssignParts(part),
                                                            <<tmp(s1)>>)),
                                  terms |-> Append(a.terms,
                                                   [f |-> "var", c |-> tmp(s1)]),
                                  cnt |-> a.cnt], value, i + 1)))
             ELSE IF part.k = "value"
             THEN AssignJoin([acc EXCEPT !.terms =
                                 Append(@, [f |-> "expr", c |-> part])], value, i + 1)
             ELSE IF part.t = "unicode"
             THEN AssignJoin([acc EXCEPT !.terms =
                                 Append(@, [f |-> "lit", c |-> Utf8Encode(part.s)])],
                             value, i + 1)
             ELSE AssignJoin([acc EXCEPT !.terms =
                                 Append(@, [f |-> "lit", c |-> part.s])], value, i + 1)

\* the loop of _assign over the fragments of a join; acc = [s, terms, cnt]
AssignJoin(acc, value, i) ==
    IF i > Len(value.items) THEN acc
    ELSE LET part == value.items[i]
         IN  IF part.k \in {"parts", "join"}
             THEN Let(acc, LAMBDA a :
                  Let(save(a.s), LAMBDA s1 :
                      AssignJoin([s |-> AssignBegin(s1, AssignParts(part), <<tmp(s1)>>),
                                  terms |-> Append(a.terms,
                                                   [f |-> "var", c |-> tmp(s1)]),
                                  cnt |-> a.cnt + 1], value, i + 1)))
             ELSE IF part.k = "value"
             THEN AssignJoin([acc EXCEPT !.terms =
                                 Append(@, [f |-> "expr", c |-> part])], value, i + 1)
             ELSE IF part.t = "unicode"
             THEN AssignJoin([acc EXCEPT !.terms =
                                 Append(@, [f |-> "lit", c |-> Utf8Encode(part.s)])],
                             value, i + 1)
             ELSE AssignJoin([acc EXCEPT !.terms =
                                 Append(@, [f |-> "lit", c |-> part.s])], value, i + 1)

RECURSIVE RestoreN(_, _)
RestoreN(s, n) == IF n = 0 THEN s ELSE RestoreN(restore(s), n - 1)

Assign_assign(s, variable, value) ==
    IF value.k = "value"
    THEN write(s, Line("assign", variable, "", "", value))
    ELSE IF value.k = "join"
    THEN Let(AssignJoin([s |-> s, terms |-> <<>>, cnt |-> 0], value, 1),
             LAMBDA acc :
                 RestoreN(write(acc.s, Line("format", variable, "", "", acc.terms)),
                          acc.cnt))
    ELSE s

\* mutant: the loop runs over every expression, the last one included
RECURSIVE AssignTryAll(_, _, _, _)
AssignTryAll(s, parts, variable, i) ==
    IF i > Len(parts) THEN s
    ELSE Let(indent(write(s, Line("try", <<>>, "", "", <<>>)), 1), LAMBDA s1 :
         Let(Assign_assign(s1, variable, parts[i]), LAMBDA s2 :
         Let(indent(write(outdent(s2, 1),
                          Line("except", <<>>, "", "", "Exception")), 1), LAMBDA s3 :
             AssignTryAll(s3, parts, variable, i + 1))))

\* the first n - 1 expressions are try-except wrapped
AssignTry(s, parts, variable, i) ==
    IF i > Len(parts) - 1 THEN s
    ELSE Let(indent(write(s, Line("try", <<>>, "", "", <<>>)), 1), LAMBDA s1 :
         Let(Assign_assign(s1, variable, parts[i]), LAMBDA s2 :
         Let(indent(write(outdent(s2, 1),
                          Line("except", <<>>, "", "", "Exception")), 1), LAMBDA s3 :
             AssignTry(s3, parts, variable, i + 1))))

\* mutant: the unguarded attempt is the first expression, not the last
AssignBeginFirst(s, parts, variable) ==
    Let(AssignTry(s, parts, variable, 1), LAMBDA s1 :
    Let(Assign_assign(s1, variable, parts[1]), LAMBDA s2 :
        outdent(s2, Len(parts) - 1)))

\* mutant: the levels opened for the fallback handlers are never closed
AssignBeginNoOutdent(s, parts, variable) ==
    Let(AssignTry(s, parts, variable, 1), LAMBDA s1 :
        Assign_assign(s1, variable, parts[Len(parts)]))
AssignBegin(s, parts, variable) ==
    Let(AssignTry(s, parts, variable, 1), LAMBDA s1 :
    Let(Assign_assign(s1, variable, parts[Len(parts)]), LAMBDA s2 :
        outdent(s2, Len(parts) - 1)))

AssignEnd(s) == s

-----------------------------------------------------------------------------
(* clauses.Define *)

\* Define.__init__: the variable of the assignment is the one name or the
\* tuple of names
DefineVariable(definition) == definition

InOlderScope(s, var) == \E k \in 1..(Len(s.scope) - 1) : var \in s.scope[k]

\* "for scope in stream.scope[:-1]: if var in scope: write(temp = var)"
RECURSIVE DefineBackup(_, _, _, _)
DefineBackup(s, var, temp, k) ==
    Let(s, LAMBDA s0 :
        IF k > Len(s0.scope) - 1 THEN s0
        ELSE DefineBackup(IF var \in s0.scope[k]
                          THEN write(s0, Line("copy", <<>>, temp, var, <<>>))
                          ELSE s0, var, temp, k + 1))

\* the loop of Define.begin over the declared names
RECURSIVE DefineSave(_, _, _)
DefineSave(s, definitions, i) ==
    IF i > Len(definitions) THEN s
    ELSE Let(save(s), LAMBDA s1 :
         LET var == definitions[i]
             temp == tmp(s1)
         IN  Let(IF var \notin s1.scope[Len(s1.scope)]
                 THEN [DefineBackup(s1, var, temp, 1)
                          EXCEPT !.scope[Len(s1.scope)] = @ \cup {var}]
                 ELSE s1,
                 LAMBDA s2 : DefineSave(s2, definitions, i + 1)))

DefineBegin(s, definitions, expression) ==
    AssignBegin(DefineSave(s, definitions, 1), AssignParts(expression),
                DefineVariable(definitions))

\* the loop of Define.end over the declared names, in reverse
RECURSIVE DefineRestore(_, _, _)
DefineRestore(s, definitions, i) ==
    IF i < 1 THEN s
    ELSE Let(s, LAMBDA s0 :
         LET var == definitions[i]
             temp == tmp(s0)
         IN  Let(restore(s0), LAMBDA s1 :
             Let(IF var \in s1.scope[Len(s1.scope)]
                 THEN IF InOlderScope(s1, var)
                      THEN [write(s1, Line("copy", <<>>, var, temp, <<>>))
                               EXCEPT !.scope[Len(s1.scope)] = @ \ {var}]
                      ELSE write(s1, Line("del", <<>>, var, "", <<>>))
                 ELSE s1,
                 LAMBDA s2 : DefineRestore(s2, definitions, i - 1))))

DefineEnd(s, definitions) ==
    DefineRestore(AssignEnd(s), definitions, Len(definitions))

-----------------------------------------------------------------------------
(* clauses.Repeat *)

\* mutant: the loop variable is taken from the iterator before the loop
\* test instead of inside the loop
RepeatBeginNextFirst(s, variable, expression) ==
    Let(save(s), LAMBDA s1 :
    LET iterator == tmp(s1)
    IN  Let(AssignBegin(s1, AssignParts(expression), <<iterator>>), LAMBDA s2 :
        Let(DefineBegin(s2, <<variable>>, ValueNone), LAMBDA s3 :
        Let(write(s3, Line("iter", <<>>, iterator, variable, <<>>)), LAMBDA s4 :
        Let(write(s4, Line("next", <<>>, variable, iterator, <<>>)), LAMBDA s5 :
        Let(indent(write(s5, Line("while", <<>>, iterator, "", <<>>)), 1),
            LAMBDA s6 :
            write(s6, Line("next", <<>>, variable, iterator, <<>>))))))))

RepeatBegin(s, variable, expression) ==
    Let(save(s), LAMBDA s1 :
    LET iterator == tmp(s1)
    IN  \* assign iterator
        Let(AssignBegin(s1, AssignParts(expression), <<iterator>>), LAMBDA s2 :
        \* initialize variable scope
        Let(DefineBegin(s2, <<variable>>, ValueNone), LAMBDA s3 :
        \* initialize iterator
        Let(write(s3, Line("iter", <<>>, iterator, variable, <<>>)), LAMBDA s4 :
        \* loop
        Let(indent(write(s4, Line("while", <<>>, iterator, "", <<>>)), 1),
            LAMBDA s5 :
            write(s5, Line("next", <<>>, variable, iterator, <<>>)))))))

RepeatEnd(s, variable) ==
    \* cook before leaving loop
    restore(AssignEnd(DefineEnd(outdent(cook(s), 1), <<variable>>)))

-----------------------------------------------------------------------------
(* clauses.Tag *)

\* Tag.__init__: the tag name without its namespace
TagName(tag) == tag.local

IsExpression(value) == value.k \in {"value", "parts", "join"}

\* one static attribute: out(' name="escaped value"')
TagStatic(s, attr) ==
    out(s, <<" ", attr.name, "=", "\"">> \o escape(attr.value.s, TRUE) \o <<"\"">>)

\* the statements that coerce the temporary to a byte string
TagCoerce(s, temp, flag) ==
    IF flag
    THEN Let(indent(write(s, Line("ifunicode", <<>>, temp, "", <<>>)), 1),
             LAMBDA s1 :
         Let(outdent(write(s1, Line("encode", <<>>, temp, "", <<>>)), 1),
             LAMBDA s2 :
         Let(indent(write(s2, Line("else", <<>>, "", "", <<>>)), 1), LAMBDA s3 :
             outdent(write(s3, Line("str", <<>>, temp, "", <<>>)), 1))))
    ELSE write(s, Line("str", <<>>, temp, "", <<>>))

\* mutant: the closing quote is issued after the guard has been closed
TagDynamicQuoteOutside(s, attr, temp, flag) ==
    Let(AssignBegin(s, AssignParts(attr.value), <<temp>>), LAMBDA s1 :
    Let(indent(write(s1, Line("ifnotnone", <<>>, temp, "", <<>>)), 1), LAMBDA s2 :
    Let(TagCoerce(s2, temp, flag), LAMBDA s3 :
    Let(write(s3, Line("writeattr", <<>>, temp, "", attr.name)), LAMBDA s4 :
        out(outdent(AssignEnd(s4), 1), <<"\"">>)))))

\* one dynamic attribute, evaluated into the temporary
TagDynamic(s, attr, temp, flag) ==
    Let(AssignBegin(s, AssignParts(attr.value), <<temp>>), LAMBDA s1 :
    \* only include attribute if value is non-trivial
    Let(indent(write(s1, Line("ifnotnone", <<>>, temp, "", <<>>)), 1), LAMBDA s2 :
    Let(TagCoerce(s2, temp, flag), LAMBDA s3 :
    Let(write(s3, Line("writeattr", <<>>, temp, "", attr.name)), LAMBDA s4 :
    Let(out(s4, <<"\"">>), LAMBDA s5 :
        outdent(AssignEnd(s5), 1))))))

\* the loops of Tag.begin over the static (dyn = FALSE) and the dynamic
\* attributes
RECURSIVE TagAttrs(_, _, _, _, _, _)
TagAttrs(s, attrs, i, dyn, temp, flag) ==
    IF i > Len(attrs) THEN s
    ELSE IF IsExpression(attrs[i].value) # dyn
    THEN TagAttrs(s, attrs, i + 1, dyn, temp, flag)
    ELSE Let(IF dyn THEN TagDynamic(s, attrs[i], temp, flag)
             ELSE TagStatic(s, attrs[i]),
             LAMBDA s1 : TagAttrs(s1, attrs, i + 1, dyn, temp, flag))

TagBegin(s, tag, attributes, selfclosing, flag) ==
    Let(out(s, <<"<", TagName(tag)>>), LAMBDA s1 :
    \* static attributes
    Let(TagAttrs(s1, attributes, 1, FALSE, "", flag), LAMBDA s2 :
    \* dynamic attributes
    Let(save(s2), LAMBDA s3 :
    Let(restore(TagAttrs(s3, attributes, 1, TRUE, tmp(s3), flag)), LAMBDA s4 :
        IF selfclosing THEN out(s4, <<" ", "/", ">">>) ELSE out(s4, <<">">>)))))

TagEnd(s, tag, selfclosing) ==
    IF ~selfclosing THEN out(s, <<"<", "/", TagName(tag), ">">>) ELSE s

-----------------------------------------------------------------------------
(* clauses.Write and clauses.Out *)

\* Write.__init__: a parts is assigned first, anything else is written as it
\* is; only an escape is not a structure
WriteStructure(value) == ~(value.k = "parts" /\ value.esc)

\* the statements that write _urf
WriteOut(s, structure) ==
    IF structure THEN write(s, Line("outwrite", <<>>, "", "", "str"))
    ELSE write(s, Line("outwrite", <<>>, "", "", "escape"))

WriteBegin(s, value, flag) ==
    Let(save(s), LAMBDA s1 :
    Let(IF value.k # "parts"
        THEN write(s1, Line("assign", <<"_urf">>, "", "", value))
        ELSE write(AssignBegin(s1, AssignParts(value), <<tmp(s1)>>),
                   Line("copy", <<>>, "_urf", tmp(s1), <<>>)), LAMBDA s2 :
    Let(write(s2, Line("urfnone", <<>>, "", "", <<>>)), LAMBDA s3 :
        IF flag
        THEN Let(indent(write(s3, Line("ifunicode", <<>>, "_urf", "", <<>>)), 1),
                 LAMBDA s4 :
             Let(outdent(write(s4, Line("outwrite", <<>>, "", "", "encode")), 1),
                 LAMBDA s5 :
             Let(indent(write(s5, Line("else", <<>>, "", "", <<>>)), 1), LAMBDA s6 :
                 outdent(WriteOut(s6, WriteStructure(value)), 1))))
        ELSE WriteOut(s3, WriteStructure(value)))))

WriteEnd(s, value) == restore(IF value.k = "parts" THEN AssignEnd(s) ELSE s)

OutBegin(s, string, defer) == IF ~defer THEN out(s, string) ELSE s

OutEnd(s, string, defer) == IF defer THEN out(s, string) ELSE s

\* UnicodeWrite: the value of the variable is written as it is
UnicodeWriteBegin(s, value) ==
    write(save(s), Line("writeraw", <<>>, value.c, "", <<>>))

UnicodeWriteEnd(s) == restore(s)

-----------------------------------------------------------------------------
(* The clause objects and stream.begin / stream.end *)

AssignClause(value, variable) == [c |-> "Assign", value |-> value, variable |-> variable]
ConditionClause(value, clauses, finalize) ==
    [c |-> "Condition", value |-> value, clauses |-> clauses, finalize |-> finalize]
ElseClause(clauses) == [c |-> "Else", clauses |-> clauses]
GroupClause(clauses) == [c |-> "Group", clauses |-> clauses]
TagClause(tag, attributes, selfclosing) ==
    [c |-> "Tag", tag |-> tag, attributes |-> attributes, selfclosing |-> selfclosing]
WriteClause(value) == [c |-> "Write", value |-> value]
UnicodeWriteClause(value) == [c |-> "UnicodeWrite", value |-> value]
\* mutant: the string is written by begin whatever defer says
OutClauseAtBegin(string, defer) == [c |-> "Out", string |-> string, defer |-> FALSE]

OutClause(string, defer) == [c |-> "Out", string |-> string, defer |-> defer]
DefineClause(definitions, expression) ==
    [c |-> "Define", definitions |-> definitions, expression |-> expression]
RepeatClause(variable, expression) ==
    [c |-> "Repeat", variable |-> variable, expression |-> expression]
\* clauses.Visit: begin visits the node, end does nothing
VisitClause(node) == [c |-> "Visit", node |-> node]

RECURSIVE ClauseBegin(_, _, _), ClauseEnd(_, _), BeginAll(_, _, _, _),
          EndAll(_, _, _), ConditionEndAll(_, _, _), NodeVisit(_, _, _)

\* "for clause in clauses: clause.begin(stream)"
BeginAll(s, clauses, i, flag) ==
    IF i > Len(clauses) THEN s
    ELSE Let(ClauseBegin(s, clauses[i], flag),
             LAMBDA s1 : BeginAll(s1, clauses, i + 1, flag))

\* mutant: the first clause of the list is never ended
EndAllButFirst(s, clauses, i) ==
    IF i < 2 THEN s
    ELSE Let(ClauseEnd(s, clauses[i]), LAMBDA s1 : EndAll(s1, clauses, i - 1))

\* "for clause in reversed(clauses): clause.end(stream)"
EndAll(s, clauses, i) ==
    IF i < 1 THEN s
    ELSE Let(ClauseEnd(s, clauses[i]), LAMBDA s1 : EndAll(s1, clauses, i - 1))

\* Condition.end, finalize off: "for clause in reversed(self.clauses):
\* clause.end(stream); stream.outdent()"
ConditionEndAll(s, clauses, i) ==
    IF i < 1 THEN s
    ELSE ConditionEndAll(outdent(ClauseEnd(s, clauses[i]), 1), clauses, i - 1)

ConditionBegin(s, cl, flag) ==
    Let(save(s), LAMBDA s1 :
    Let(AssignBegin(s1, AssignParts(cl.value), <<tmp(s1)>>), LAMBDA s2 :
    Let(indent(write(s2, Line("if", <<>>, tmp(s1), "", <<>>)), 1), LAMBDA s3 :
        IF cl.clauses # <<>>
        THEN Let(BeginAll(s3, cl.clauses, 1, flag), LAMBDA s4 :
                 outdent(IF cl.finalize
                         THEN EndAll(s4, cl.clauses, Len(cl.clauses))
                         ELSE s4, 1))
        ELSE s3)))

\* mutant: end evaluates the guard again before it tests it
ConditionEndReevaluate(s, cl) ==
    Let(s, LAMBDA s0 :
    Let(restore(s0), LAMBDA s1 :
        AssignEnd(IF cl.clauses # <<>>
                  THEN IF ~cl.finalize
                       THEN ConditionEndAll(
                                indent(write(AssignBegin(s1, AssignParts(cl.value),
                                                         <<tmp(s0)>>),
                                             Line("if", <<>>, tmp(s0), "", <<>>)), 1),
                                cl.clauses, Len(cl.clauses))
                       ELSE s1
                  ELSE outdent(s1, 1))))

ConditionEnd(s, cl) ==
    Let(s, LAMBDA s0 :
    Let(restore(s0), LAMBDA s1 :
        AssignEnd(IF cl.clauses # <<>>
                  THEN IF ~cl.finalize
                       THEN ConditionEndAll(
                                indent(write(s1, Line("if", <<>>, tmp(s0), "",
                                                      <<>>)), 1),
                                cl.clauses, Len(cl.clauses))
                       ELSE s1
                  ELSE outdent(s1, 1))))

ElseBegin(s, cl, flag) ==
    Let(indent(write(s, Line("else", <<>>, "", "", <<>>)), 1), LAMBDA s1 :
        IF cl.clauses # <<>>
        THEN outdent(EndAll(BeginAll(s1, cl.clauses, 1, flag), cl.clauses,
                            Len(cl.clauses)), 1)
        ELSE s1)

ElseEnd(s, cl) == IF cl.clauses = <<>> THEN outdent(s, 1) ELSE s

\* mutant: the clauses of the group are begun and never ended
GroupBeginNoEnd(s, cl, flag) == BeginAll(s, cl.clauses, 1, flag)

GroupBegin(s, cl, flag) ==
    EndAll(BeginAll(s, cl.clauses, 1, flag), cl.clauses, Len(cl.clauses))

GroupEnd(s, cl) == s

ClauseBegin(s, cl, flag) ==
    CASE cl.c = "Assign" -> AssignBegin(s, AssignParts(cl.value), cl.variable)
      [] cl.c = "Condition" -> ConditionBegin(s, cl, flag)
      [] cl.c = "Else" -> ElseBegin(s, cl, flag)
      [] cl.c = "Group" -> GroupBegin(s, cl, flag)
      [] cl.c = "Tag" -> TagBegin(s, cl.tag, cl.attributes, cl.selfclosing, flag)
      [] cl.c = "Write" -> WriteBegin(s, cl.value, flag)
      [] cl.c = "UnicodeWrite" -> UnicodeWriteBegin(s, cl.value)
      [] cl.c = "Out" -> OutBegin(s, cl.string, cl.defer)
      [] cl.c = "Define" -> DefineBegin(s, cl.definitions, cl.expression)
      [] cl.c = "Repeat" -> RepeatBegin(s, cl.variable, cl.expression)
      [] cl.c = "Visit" -> NodeVisit(s, cl.node, flag)

ClauseEnd(s, cl) ==
    CASE cl.c = "Assign" -> AssignEnd(s)
      [] cl.c = "Condition" -> ConditionEnd(s, cl)
      [] cl.c = "Else" -> ElseEnd(s, cl)
      [] cl.c = "Group" -> GroupEnd(s, cl)
      [] cl.c = "Tag" -> TagEnd(s, cl.tag, cl.selfclosing)
      [] cl.c = "Write" -> WriteEnd(s, cl.value)
      [] cl.c = "UnicodeWrite" -> UnicodeWriteEnd(s)
      [] cl.c = "Out" -> OutEnd(s, cl.string, cl.defer)
      [] cl.c = "Define" -> DefineEnd(s, cl.definitions)
      [] cl.c = "Repeat" -> RepeatEnd(s, cl.variable)
      [] cl.c = "Visit" -> s

\* CodeIO.begin and CodeIO.end
begin(s, clauses, flag) == BeginAll(s, clauses, 1, flag)

end(s, clauses) == EndAll(s, clauses, Len(clauses))

-----------------------------------------------------------------------------
(* Execution of the emitted code: block structure by indentation *)

\* the header of the block that holds line i (0 at top level)
RECURSIVE HeaderFrom(_, _, _)
HeaderFrom(code, i, j) ==
    IF j = 0 THEN 0
    ELSE IF code[j].ind < code[i].ind THEN j
    ELSE HeaderFrom(code, i, j - 1)

Header(code, i) == HeaderFrom(code, i, i - 1)

\* the first line after the suite of line i
RECURSIVE BlockEndFrom(_, _, _)
BlockEndFrom(code, i, j) ==
    IF j > Len(code) THEN j
    ELSE IF code[j].ind <= code[i].ind THEN j
    ELSE BlockEndFrom(code, i, j + 1)

BlockEnd(code, i) == BlockEndFrom(code, i, i + 1)

\* the first line after the whole statement of line i, its except and else
\* clauses included
RECURSIVE StmtEnd(_, _)
StmtEnd(code, i) ==
    LET j == BlockEnd(code, i)
    IN  IF j <= Len(code) /\ code[j].ind = code[i].ind
           /\ code[j].op \in {"except", "else"}
        THEN StmtEnd(code, j)
        ELSE j

\* where control goes when the statement of line i completes normally
RECURSIVE Cont(_, _)
Cont(code, i) ==
    LET j == StmtEnd(code, i)
        h == Header(code, i)
    IN  IF j <= Len(code) /\ code[j].ind = code[i].ind THEN j
        ELSE IF h = 0 THEN Len(code) + 1
        ELSE IF code[h].op = "while" THEN h
        ELSE Cont(code, h)

\* where control goes when the guard of line i is false
ElseOf(code, i) ==
    LET j == BlockEnd(code, i)
    IN  IF j <= Len(code) /\ code[j].ind = code[i].ind /\ code[j].op = "else"
        THEN j + 1
        ELSE Cont(code, i)

\* "except Exception": the body of the handler that catches an error of
\* class kind raised at line i, 0 when it propagates to the caller
RECURSIVE HandlerOf(_, _, _)
HandlerOf(code, i, kind) ==
    LET h == Header(code, i)
    IN  IF h = 0 THEN 0
        ELSE IF code[h].op = "try" /\ kind = "Exception"
        THEN BlockEnd(code, h) + 1
        ELSE HandlerOf(code, h, kind)

-----------------------------------------------------------------------------
(* Execution of the emitted code: values *)

Truthy(val, heap) ==
    CASE val.t = "none" -> FALSE
      [] val.t \in {"str", "unicode", "list"} -> val.v # <<>>
      [] val.t = "bool" -> val.v = <<"True">>
      [] val.t = "iter" -> heap[val.n].pos < Len(heap[val.n].items)
      [] OTHER -> TRUE

Ok(val) == [ok |-> TRUE, val |-> val, err |-> ""]
Err(kind) == [ok |-> FALSE, val |-> None, err |-> kind]

\* the value of an expression handle in an environment
Eval(e, env) ==
    CASE e.f = "const" -> Ok(e.c)
      [] e.f = "raise" -> Err(e.c)
      [] e.f = "name" -> IF env[e.c].t = "unbound" THEN Err("Exception")
                         ELSE Ok(env[e.c])
      [] e.f = "not" -> IF env[e.c].t = "unbound" THEN Err("Exception")
                        ELSE Ok(Bool(env[e.c].t \in {"none"}
                                     \/ env[e.c].v \in {<<"False">>}))
      \* "x is not _marker"
      [] e.f = "isnot" -> IF env[e.c].t = "unbound" THEN Err("Exception")
                          ELSE Ok(Bool(env[e.c] # Marker))
      \* "_translate(msgid, ..., default=_marker)": the catalog's answer
      [] e.f = "translate" -> Ok(e.c)
      \* "_metal(name=name, ...)": the macro returns its name and the names of
      \* the keyword arguments it was called with
      [] e.f = "call" -> IF \E i \in 1..Len(e.c) : env[e.c[i]].t = "unbound"
                         THEN Err("Exception")
                         ELSE IF env["_metal"].t = "unbound" THEN Err("Exception")
                         ELSE Ok(Str(env["_metal"].v \o <<"(">> \o e.c \o <<")">>))

\* str(x); flag is unicode_required_flag: when it is false the default
\* encoding can encode any text
ToStr(val, flag) ==
    CASE val.t = "str" -> Ok(val)
      [] val.t = "unicode" ->
            IF IsAscii(val.v) THEN Ok(Str(val.v))
            ELSE IF flag THEN Err("Exception")
            ELSE Ok(Str(Utf8Encode(val.v)))
      [] val.t = "none" -> Ok(Str(<<"None">>))
      [] OTHER -> Ok(Str(val.v))

-----------------------------------------------------------------------------
(* Execution of the emitted code: one statement *)

NoEntry == [owner |-> 0, id |-> 0, length |-> 0]

InitEnv == [x \in AllNames \cup {"_out"} |->
               IF x = "_out" THEN Buf(1)
               ELSE IF x = "_write" THEN BufWrite(1)
               ELSE IF x = "_scope" THEN Obj(<<"scope">>) ELSE Unbound]

InitRt ==
    [pc |-> 1, env |-> InitEnv, bufs |-> << <<>> >>, status |-> "idle",
     err |-> "", evals |-> <<>>, caught |-> <<>>, heap |-> <<>>, log |-> <<>>]

Goto(st, code, j) ==
    IF j > Len(code) THEN [st EXCEPT !.pc = j, !.status = "done"]
    ELSE [st EXCEPT !.pc = j]

Advance(st, code) == Goto(st, code, Cont(code, st.pc))

Raise(st, code, kind) ==
    LET j == HandlerOf(code, st.pc, kind)
    IN  IF j = 0 THEN [st EXCEPT !.status = "raised", !.err = kind]
        ELSE Goto([st EXCEPT !.caught = Append(@, st.pc)], code, j)

\* "a = v" and "(a, b,) = v"
BindTo(st, code, tg, val) ==
    IF Len(tg) = 1
    THEN Advance([st EXCEPT !.env[tg[1]] = val], code)
    ELSE IF val.t = "streampair" /\ Len(tg) = 2
    THEN Advance([st EXCEPT !.env[tg[1]] = Buf(val.n),
                            !.env[tg[2]] = BufWrite(val.n)], code)
    ELSE IF val.t = "list" /\ Len(val.v) = Len(tg)
    THEN Advance([st EXCEPT !.env =
                     [x \in DOMAIN st.env |->
                         IF \E i \in 1..Len(tg) : tg[i] = x
                         THEN Obj(<<val.v[CHOOSE i \in 1..Len(tg) :
                                        tg[i] = x /\ \A j \in (i+1)..Len(tg) : tg[j] # x]>>)
                         ELSE st.env[x]]], code)
    ELSE Raise(st, code, "Exception")

\* "generation.initialize_stream()" makes a new buffer, "_out.getvalue()"
\* reads the current one; every other expression depends on the names only
ExecAssign(st, code, l) ==
    LET r == CASE l.e.f = "initstream" -> Ok(StreamPair(Len(st.bufs) + 1))
               [] l.e.f = "getvalue" ->
                     IF st.env["_out"].t = "buf"
                     THEN Ok(Str(st.bufs[st.env["_out"].n]))
                     ELSE Err("Exception")
               [] OTHER -> Eval(l.e, st.env)
        st1 == [st EXCEPT !.evals = Append(@, l.e.id),
                          !.bufs = IF l.e.f = "initstream" THEN Append(@, <<>>)
                                   ELSE @]
    IN  IF r.ok THEN BindTo(st1, code, l.tg, r.val) ELSE Raise(st1, code, r.err)

Write(st, string) == [st EXCEPT !.bufs[st.env["_out"].n] = @ \o string]

\* the terms of "v = '%s%s' % (...)", left to right; acc = [st, vals, err]
RECURSIVE FormatTerms(_, _, _, _)
FormatTerms(acc, terms, i, flag) ==
    IF i > Len(terms) \/ acc.err # "" THEN acc
    ELSE LET term == terms[i]
             r == CASE term.f = "lit" -> Ok(Str(term.c))
                    [] term.f = "var" ->
                          IF acc.st.env[term.c].t = "unbound" THEN Err("Exception")
                          ELSE Ok(acc.st.env[term.c])
                    [] term.f = "expr" -> Eval(term.c, acc.st.env)
             st1 == IF term.f = "expr"
                    THEN [acc.st EXCEPT !.evals = Append(@, term.c.id)]
                    ELSE acc.st
         IN  IF r.ok
             THEN FormatTerms([st |-> st1, vals |-> Append(acc.vals, r.val),
                               err |-> ""], terms, i + 1, flag)
             ELSE [st |-> st1, vals |-> acc.vals, err |-> r.err]

RECURSIVE ConcatVals(_, _)
ConcatVals(vals, flag) ==
    IF vals = <<>> THEN <<>>
    ELSE (IF Head(vals).t = "unicode" THEN Head(vals).v
          ELSE ToStr(Head(vals), flag).val.v) \o ConcatVals(Tail(vals), flag)

ExecFormat(st, code, l, flag) ==
    LET acc == FormatTerms([st |-> st, vals |-> <<>>, err |-> ""], l.e, 1, flag)
        anyUni == \E i \in 1..Len(acc.vals) : acc.vals[i].t = "unicode"
        bytesAscii == \A i \in 1..Len(acc.vals) :
                         acc.vals[i].t = "str" => IsAscii(acc.vals[i].v)
    IN  IF acc.err # "" THEN Raise(acc.st, code, acc.err)
        ELSE IF anyUni /\ ~bytesAscii /\ flag THEN Raise(acc.st, code, "Exception")
        ELSE BindTo(acc.st, code, l.tg,
                    IF anyUni THEN Uni(ConcatVals(acc.vals, flag))
                    ELSE Str(ConcatVals(acc.vals, flag)))

\* "repeat['v'] = it = it.__iter__()"
ExecIter(st, code, l, reg, r) ==
    LET val == st.env[l.x]
    IN  IF val.t = "list"
        THEN LET id == Len(st.heap) + 1
                 st1 == [st EXCEPT !.heap = Append(@, [items |-> val.v, pos |-> 0]),
                                   !.env[l.x] = Iter(id)]
             IN  [st |-> Advance(st1, code),
                  reg |-> [reg EXCEPT ![l.y] =
                              [owner |-> r, id |-> id, length |-> Len(val.v)]]]
        ELSE IF val.t = "iter"
        THEN [st |-> Advance(st, code),
              reg |-> [reg EXCEPT ![l.y] =
                          [owner |-> r, id |-> val.n,
                           length |-> Len(st.heap[val.n].items) - st.heap[val.n].pos]]]
        ELSE [st |-> Raise(st, code, "Exception"), reg |-> reg]

\* "v = it.next()"
ExecNext(st, code, l) ==
    LET it == st.heap[st.env[l.y].n]
    IN  IF it.pos < Len(it.items)
        THEN Advance([st EXCEPT !.heap[st.env[l.y].n].pos = @ + 1,
                                !.env[l.x] = Obj(<<it.items[it.pos + 1]>>)], code)
        ELSE Raise(st, code, "Exception")

\* the repeat descriptor (utils.repeatitem) of a registry entry: its index is
\* derived from what the registered iterator has left
Descriptor(entry, allrt) ==
    LET it == allrt[entry.owner].heap[entry.id]
        index == entry.length - (Len(it.items) - it.pos) - 1
    IN  [owner |-> entry.owner, index |-> index, start |-> index = 0,
         end |-> index = entry.length - 1, number |-> index + 1,
         odd |-> index % 2 = 1, even |-> index % 2 = 0]

NoDescriptor ==
    [owner |-> 0, index |-> 0, start |-> FALSE, end |-> FALSE, number |-> 0,
     odd |-> FALSE, even |-> FALSE]

\* "r = repeat['v']; print (v, r.index, r.start, r.end, r.number(), ...)"
ExecProbe(st, code, l, reg, allrt) ==
    IF reg[l.x] = NoEntry \/ st.env[l.x].t = "unbound"
    THEN Raise(st, code, "Exception")
    ELSE Advance([st EXCEPT !.log =
                     Append(@, [label |-> [k |-> 0, j |-> 0, w |-> "probe"],
                                env |-> [x \in ProgNames |-> st.env[x]],
                                d |-> Descriptor(reg[l.x], allrt)])],
                 code)

\* an observation point written between clauses: records the bindings
ExecMark(st, code, l) ==
    Advance([st EXCEPT !.log = Append(@, [label |-> l.e,
                                          env |-> [x \in ProgNames |-> st.env[x]],
                                          d |-> NoDescriptor])],
            code)

ExecLine(st, code, l, reg, r, flag, allrt) ==
    CASE l.op = "assign" -> [st |-> ExecAssign(st, code, l), reg |-> reg]
      [] l.op = "format" -> [st |-> ExecFormat(st, code, l, flag), reg |-> reg]
      [] l.op = "try" -> [st |-> Goto(st, code, st.pc + 1), reg |-> reg]
      [] l.op \in {"except", "else"} -> [st |-> Advance(st, code), reg |-> reg]
      [] l.op = "if" ->
            [st |-> IF st.env[l.x].t = "unbound" THEN Raise(st, code, "Exception")
                    ELSE IF Truthy(st.env[l.x], st.heap)
                    THEN Goto(st, code, st.pc + 1)
                    ELSE Goto(st, code, ElseOf(code, st.pc)),
             reg |-> reg]
      [] l.op = "while" ->
            [st |-> IF Truthy(st.env[l.x], st.heap) THEN Goto(st, code, st.pc + 1)
                    ELSE Goto(st, code, Cont(code, st.pc)),
             reg |-> reg]
      [] l.op = "ifnotnone" ->
            [st |-> IF st.env[l.x].t # "none" THEN Goto(st, code, st.pc + 1)
                    ELSE Goto(st, code, ElseOf(code, st.pc)),
             reg |-> reg]
      [] l.op = "ifunicode" ->
            [st |-> IF st.env[l.x].t = "unicode" THEN Goto(st, code, st.pc + 1)
                    ELSE Goto(st, code, ElseOf(code, st.pc)),
             reg |-> reg]
      [] l.op = "encode" ->
            [st |-> Advance([st EXCEPT !.env[l.x] = Str(Utf8Encode(@.v))], code),
             reg |-> reg]
      [] l.op = "str" ->
            [st |-> LET s == ToStr(st.env[l.x], flag)
                    IN  IF s.ok THEN Advance([st EXCEPT !.env[l.x] = s.val], code)
                        ELSE Raise(st, code, s.err),
             reg |-> reg]
      [] l.op = "writeattr" ->
            [st |-> Advance(Write(st, <<" ", l.e, "=", "\"">>
                                      \o escape(st.env[l.x].v, TRUE)), code),
             reg |-> reg]
      [] l.op = "copy" ->
            [st |-> IF st.env[l.y].t = "unbound" THEN Raise(st, code, "Exception")
                    ELSE Advance([st EXCEPT !.env[l.x] = st.env[l.y]], code),
             reg |-> reg]
      [] l.op = "del" ->
            [st |-> IF st.env[l.x].t = "unbound" THEN Raise(st, code, "Exception")
                    ELSE Advance([st EXCEPT !.env[l.x] = Unbound], code),
             reg |-> reg]
      [] l.op = "iter" -> ExecIter(st, code, l, reg, r)
      [] l.op = "next" -> [st |-> ExecNext(st, code, l), reg |-> reg]
      [] l.op = "urfnone" ->
            [st |-> Advance(IF st.env["_urf"].t = "none"
                            THEN [st EXCEPT !.env["_urf"] = Str(<<>>)] ELSE st, code),
             reg |-> reg]
      [] l.op = "outwrite" ->
            [st |-> LET val == st.env["_urf"]
                        s == ToStr(val, flag)
                    IN  IF l.e = "encode"
                        THEN Advance(Write(st, Utf8Encode(val.v)), code)
                        ELSE IF ~s.ok THEN Raise(st, code, s.err)
                        ELSE IF l.e = "str" THEN Advance(Write(st, s.val.v), code)
                        ELSE Advance(Write(st, escape(s.val.v, FALSE)), code),
             reg |-> reg]
      [] l.op = "writeraw" ->
            [st |-> LET val == st.env[l.x]
                    IN  IF val.t = "unbound" THEN Raise(st, code, "Exception")
                        ELSE Advance(Write(st, IF val.t = "unicode"
                                               THEN Utf8Encode(val.v)
                                               ELSE val.v), code),
             reg |-> reg]
      [] l.op = "outlit" -> [st |-> Advance(Write(st, l.e), code), reg |-> reg]
      [] l.op = "probe" -> [st |-> ExecProbe(st, code, l, reg, allrt), reg |-> reg]
      [] l.op = "mark" -> [st |-> ExecMark(st, code, l), reg |-> reg]

\* CodeIO.getvalue: pending literal output is cooked first
getvalue(s) == cook(s)

\* the statements that open a suite
Headers == {"try", "except", "else", "if", "while", "ifnotnone", "ifunicode"}

\* a header that no statement follows at a deeper indentation: the code does
\* not compile ("expected an indented block")
EmptySuite(code) ==
    \E i \in 1..Len(code) :
        /\ code[i].op \in Headers
        /\ i = Len(code) \/ code[i + 1].ind <= code[i].ind

\* the renders rs start executing the compiled code; code that does not
\* compile raises before its first statement
Launch(rs, code) ==
    [r \in Renders |->
        IF r \notin rs THEN rt[r]
        ELSE IF EmptySuite(code)
        THEN [rt[r] EXCEPT !.status = "raised", !.err = "IndentationError"]
        ELSE Goto([rt[r] EXCEPT !.status = "running"], code, 1)]

\* the repeat registry a render uses: one registry for the process
RepeatRegistry(r) == repeat

\* a render executes the statement at its pc
Exec(r) ==
    /\ phase = "run"
    /\ rt[r].status = "running"
    /\ LET res == ExecLine(rt[r], stream.code, stream.code[rt[r].pc],
                           RepeatRegistry(r), r,
                           input.unicode_required_flag, rt)
       IN  /\ rt' = [rt EXCEPT ![r] = res.st]
           /\ repeat' = res.reg
    /\ UNCHANGED <<input, stream, phase>>

-----------------------------------------------------------------------------
(* Scenario: an Assign of a Parts list to the variable a *)

Outcomes == {"ok", "Exception", "BaseException", "name"}

\* candidate i of a Parts list: a constant, an expression that raises, or
\* the name b
Candidate(o, i) ==
    CASE o = "ok" -> Value("const", Obj(<<"v", ToString(i)>>), i)
      [] o = "name" -> Value("name", "b", i)
      [] OTHER -> Value("raise", o, i)

PartsOf(os) == [i \in 1..Len(os) |-> Candidate(os[i], i)]

SeqsUpTo(S, n) == UNION {[1..k -> S] : k \in 1..n}

InitAssign ==
    /\ input \in [sc : {"assign"},
                  outcomes : SeqsUpTo(Outcomes, MaxParts),
                  b : {Unbound, Str(<<"b">>)},
                  prior : {Unbound, Obj(<<"0">>)},
                  unicode_required_flag : {TRUE}]
    /\ stream = NewStream
    /\ phase = "begin"
    /\ rt = [r \in Renders |->
                [InitRt EXCEPT !.env["b"] = input.b, !.env["a"] = input.prior]]
    /\ repeat = [x \in ProgNames |-> NoEntry]

AssignBeginAct ==
    /\ input.sc = "assign"
    /\ phase = "begin"
    /\ stream' = AssignBegin(stream, PartsOf(input.outcomes), <<"a">>)
    /\ phase' = "end"
    /\ UNCHANGED <<input, rt, repeat>>

AssignEndAct ==
    /\ input.sc = "assign"
    /\ phase = "end"
    /\ stream' = getvalue(AssignEnd(stream))
    /\ phase' = "run"
    /\ rt' = Launch({1}, stream'.code)
    /\ UNCHANGED <<input, repeat>>

NextAssign == AssignBeginAct \/ AssignEndAct \/ Exec(1)

SpecAssign == InitAssign /\ [][NextAssign]_vars

-----------------------------------------------------------------------------
(* Scenario: Assign of a join, inside a clause that holds a temporary *)

\* the fragments of the join: literals, a value, fallback alternatives whose
\* first candidate raises, and a join with alternatives of its own
Fragments ==
    {Text("str", <<"s">>), Text("unicode", <<"U+F1">>),
     Value("const", Str(<<"v">>), 1),
     Parts(<<Value("raise", "Exception", 2), Value("name", "b", 3)>>),
     Join(<<Text("str", <<"j">>), Parts(<<Value("const", Str(<<"q">>), 4)>>)>>)}

InitJoin ==
    /\ input \in [sc : {"join"},
                  items : SeqsUpTo(Fragments, MaxParts),
                  b : {Unbound, Str(<<"p">>)},
                  live : {0, 1},
                  unicode_required_flag : {TRUE}]
    /\ stream = [NewStream EXCEPT !.t_counter = input.live]
    /\ phase = "begin"
    /\ rt = [r \in Renders |->
                [InitRt EXCEPT !.env["b"] = input.b,
                               !.env[TmpName(1)] = IF input.live = 1
                                                   THEN Obj(<<"live">>) ELSE Unbound]]
    /\ repeat = [x \in ProgNames |-> NoEntry]

JoinBeginAct ==
    /\ input.sc = "join"
    /\ phase = "begin"
    /\ stream' = AssignBegin(stream, AssignParts(Join(input.items)), <<"a">>)
    /\ phase' = "end"
    /\ UNCHANGED <<input, rt, repeat>>

JoinEndAct ==
    /\ input.sc = "join"
    /\ phase = "end"
    /\ stream' = getvalue(AssignEnd(stream))
    /\ phase' = "run"
    /\ rt' = Launch({1}, stream'.code)
    /\ UNCHANGED <<input, repeat>>

NextJoin == JoinBeginAct \/ JoinEndAct \/ Exec(1)

SpecJoin == InitJoin /\ [][NextJoin]_vars

\* the bytes a fragment contributes, by the rule of its own kind
RECURSIVE FragmentValue(_), JoinValue(_, _), FragmentRaises(_)
FragmentRaises(part) ==
    CASE part.k = "text" -> FALSE
      [] part.k = "value" -> \/ part.f = "raise"
                             \/ part.f = "name" /\ input.b.t = "unbound"
      [] part.k = "parts" -> \A i \in 1..Len(part.items) : FragmentRaises(part.items[i])
      [] part.k = "join" -> \E i \in 1..Len(part.items) : FragmentRaises(part.items[i])

FragmentValue(part) ==
    CASE part.k = "text" -> IF part.t = "unicode" THEN Utf8Encode(part.s) ELSE part.s
      [] part.k = "value" -> IF part.f = "name" THEN input.b.v ELSE part.c.v
      [] part.k = "parts" ->
            FragmentValue(part.items[CHOOSE i \in 1..Len(part.items) :
                                         /\ ~FragmentRaises(part.items[i])
                                         /\ \A j \in 1..(i - 1) :
                                               FragmentRaises(part.items[j])])
      [] part.k = "join" -> JoinValue(part.items, 1)

JoinValue(items, i) ==
    IF i > Len(items) THEN <<>>
    ELSE FragmentValue(items[i]) \o JoinValue(items, i + 1)

\* the temporaries a format statement reads
FormatTemps(l) == {k \in 1..Len(l.e) : l.e[k].f = "var"}

\* C15: the target of a join is the concatenation of its fragments from left
\* to right, a nested Parts or Join contributing the value its own rule
\* gives; each nested fragment is assigned to a temporary of its own, none
\* of them one that is live around the join, and the live one keeps its value
C15_JoinConcatenates ==
    /\ phase \in {"end", "run"} =>
          \A k \in 1..Len(stream.code) :
              stream.code[k].op = "format" =>
                  \A i, j \in FormatTemps(stream.code[k]) :
                      /\ stream.code[k].e[i].c \notin {TmpName(m) : m \in 1..input.live}
                      /\ i # j => stream.code[k].e[i].c # stream.code[k].e[j].c
    /\ phase = "run" =>
          /\ stream.t_counter = input.live
          /\ rt[1].status = "done" =>
                /\ rt[1].env["a"].v = JoinValue(input.items, 1)
                /\ input.live = 1 => rt[1].env[TmpName(1)] = Obj(<<"live">>)
          /\ rt[1].status = "raised" => FragmentRaises(Join(input.items))
          /\ rt[1].status = "done" => ~FragmentRaises(Join(input.items))

\* a join of alternatives, a literal and a nested join, rendered with a
\* temporary live around it
C15_Witness ==
    /\ phase = "run" /\ rt[1].status = "done"
    /\ input.live = 1
    /\ Len(input.items) = 3
    /\ input.items[1].k = "parts" /\ input.items[2].k = "text"
    /\ input.items[3].k = "join"
    /\ rt[1].env["a"].v = <<"p", "s", "j", "q">>

-----------------------------------------------------------------------------
(* Both Assign scenarios under one specification *)

SpecExpressions == (InitAssign \/ InitJoin) /\ [][NextAssign \/ NextJoin]_vars

\* the temporaries reserved around the assignment
LiveBefore == IF input.sc = "join" THEN input.live ELSE 0

\* C22: whatever the expression (a single value, alternatives of any
\* length, a join with nested alternatives or joins), once Assign.begin and
\* Assign.end have run the indentation and the depth of the temporary stack
\* are the ones found before begin
C22_AssignBalanced ==
    phase \in {"end", "run"} =>
        /\ stream.indentation = 0
        /\ stream.t_counter = LiveBefore

\* a join of fallback alternatives and a nested join, with a temporary
\* reserved around it
C22_Witness ==
    /\ phase = "run" /\ input.sc = "join" /\ input.live = 1
    /\ Len(input.items) = 2
    /\ input.items[1].k = "parts" /\ input.items[2].k = "join"
    /\ stream.indentation = 0 /\ stream.t_counter = 1
    /\ \E k \in 1..Len(stream.code) : stream.code[k].op = "except"

\* three alternatives for a plain target
C22_WitnessParts ==
    /\ phase = "run" /\ input.sc = "assign"
    /\ Len(input.outcomes) = MaxParts
    /\ stream.indentation = 0 /\ stream.t_counter = 0

-----------------------------------------------------------------------------
(* Claims about Assign *)

\* candidate i raises when it is evaluated
CandRaises(i) ==
    \/ input.outcomes[i] \in {"Exception", "BaseException"}
    \/ input.outcomes[i] = "name" /\ input.b.t = "unbound"

CandClass(i) ==
    IF input.outcomes[i] = "BaseException" THEN "BaseException" ELSE "Exception"

CandValue(i) == IF input.outcomes[i] = "name" THEN input.b
                ELSE Obj(<<"v", ToString(i)>>)

\* the first candidate that evaluates without raising, 0 when there is none
FirstGood ==
    LET good == {i \in 1..Len(input.outcomes) : ~CandRaises(i)}
    IN  IF good = {} THEN 0 ELSE CHOOSE i \in good : \A j \in good : i <= j

\* C1: the code Assign emits for a Parts list tries the candidates strictly
\* in list order, each at most once, evaluates none after the first one that
\* does not raise, and leaves the target holding that candidate's value; it
\* completes whenever the errors before that candidate are of the class the
\* guard names.
C1_FirstGoodCandidate ==
    LET st == rt[1]
        g == FirstGood
    IN  /\ \A k \in 1..Len(st.evals) : st.evals[k] = k
        /\ \A k \in 1..(Len(st.evals) - 1) : CandRaises(k)
        /\ st.status = "done" =>
              /\ g # 0
              /\ Len(st.evals) = g
              /\ st.env["a"] = CandValue(g)
        /\ (g # 0 /\ \A k \in 1..(g - 1) : CandClass(k) = "Exception") =>
              st.status # "raised"

\* a run in which the second of three candidates is the first good one
C1_Witness ==
    /\ phase = "run" /\ rt[1].status = "done"
    /\ Len(input.outcomes) = 3 /\ FirstGood = 2
    /\ rt[1].evals = <<1, 2>>

-----------------------------------------------------------------------------
(* Scenario: nested nodes that carry define clauses *)

Declarations == {<<"a">>, <<"b">>, <<"a", "b">>}

SeqsFromTo(S, m, n) == UNION {[1..k -> S] : k \in m..n}

\* the expression of define j on node k: a constant, a pair for a tuple
DefineExpr(decl, k, j) ==
    IF Len(decl) = 1
    THEN Value("const", Obj(<<"d", ToString(k), ToString(j)>>), 10 * k + j)
    ELSE Value("const", List(<<"x" \o ToString(k) \o ToString(j),
                               "y" \o ToString(k) \o ToString(j)>>), 10 * k + j)

Mark(k, j, w) == Line("mark", <<>>, "", "", [k |-> k, j |-> j, w |-> w])

\* translate_etree: the outermost scope holds the declared parameters
SeedScope(s, params) == [s EXCEPT !.scope = Append(@, params)]

NodeDepth(s) == Len(s.scope) - 2

InitDefine ==
    /\ input \in [sc : {"define"},
                  params : SUBSET {"a", "b"},
                  nodes : SeqsFromTo(SeqsFromTo(Declarations, 0, MaxDefines),
                                     1, MaxDepth),
                  unicode_required_flag : {TRUE}]
    /\ \A k \in 1..Len(input.nodes) :
          IF k = Len(input.nodes) THEN input.nodes[k] # <<>>
          ELSE Len(input.nodes[k]) <= 1
    /\ stream = SeedScope(NewStream, input.params)
    /\ phase = "begin"
    /\ rt = [r \in Renders |->
                [InitRt EXCEPT !.env = [x \in DOMAIN InitEnv |->
                                           IF x \in input.params THEN Obj(<<"p", x>>)
                                           ELSE InitEnv[x]]]]
    /\ repeat = [x \in ProgNames |-> NoEntry]

\* stream.begin(clauses) for the defines of node k, an observation point
\* before each
RECURSIVE DefinesBegin(_, _, _, _)
DefinesBegin(s, k, defs, j) ==
    IF j > Len(defs) THEN s
    ELSE Let(DefineBegin(write(s, Mark(k, j, "pre")), defs[j],
                         DefineExpr(defs[j], k, j)),
             LAMBDA s1 : DefinesBegin(s1, k, defs, j + 1))

\* stream.end(clauses), in reverse, an observation point after each
RECURSIVE DefinesEnd(_, _, _, _)
DefinesEnd(s, k, defs, j) ==
    IF j < 1 THEN s
    ELSE Let(write(DefineEnd(s, defs[j]), Mark(k, j, "post")),
             LAMBDA s1 : DefinesEnd(s1, k, defs, j - 1))

\* Node.begin: push a scope frame, begin the node's clauses
NodeBeginAct ==
    /\ input.sc = "define"
    /\ phase = "begin"
    /\ LET k == NodeDepth(stream) + 1
       IN  /\ stream' = write(DefinesBegin([stream EXCEPT !.scope = Append(@, {})],
                                           k, input.nodes[k], 1),
                              Mark(k, 0, "body"))
           /\ phase' = IF k = Len(input.nodes) THEN "end" ELSE "begin"
    /\ UNCHANGED <<input, rt, repeat>>

\* Node.end: end the node's clauses in reverse, pop the scope frame
NodeEndAct ==
    /\ input.sc = "define"
    /\ phase = "end"
    /\ LET k == NodeDepth(stream)
           s2 == [DefinesEnd(stream, k, input.nodes[k], Len(input.nodes[k]))
                     EXCEPT !.scope = SubSeq(@, 1, Len(@) - 1)]
       IN  IF k = 1
           THEN /\ stream' = getvalue(s2)
                /\ phase' = "run"
                /\ rt' = Launch({1}, stream'.code)
           ELSE /\ stream' = s2
                /\ phase' = "end"
                /\ UNCHANGED rt
    /\ UNCHANGED <<input, repeat>>

NextDefine == NodeBeginAct \/ NodeEndAct \/ Exec(1)

SpecDefine == InitDefine /\ [][NextDefine]_vars

-----------------------------------------------------------------------------
(* Claims about Define *)

LogAt(st, k, j, w) ==
    {i \in 1..Len(st.log) : st.log[i].label = [k |-> k, j |-> j, w |-> w]}

\* the define clauses of the scenario: <<node, index>>
DefineIds ==
    {kj \in (1..Len(input.nodes)) \X (1..MaxDefines) :
        kj[2] <= Len(input.nodes[kj[1]])}

DeclNames(decl) == {decl[i] : i \in 1..Len(decl)}

\* define j of node k left every declared name as it found it
Preserved(st, k, j) ==
    \A p \in LogAt(st, k, j, "pre"), q \in LogAt(st, k, j, "post") :
        \A x \in DeclNames(input.nodes[k][j]) :
            st.log[p].env[x] = st.log[q].env[x]

\* C3 (as claimed): for every scope stack and every declaration, the code of
\* Define.begin followed by the code of Define.end runs to its end and leaves
\* the binding of every declared name as it was before begin.
C3_DefineRestoresBinding ==
    LET st == rt[1]
    IN  /\ st.status # "raised"
        /\ \A kj \in DefineIds : Preserved(st, kj[1], kj[2])

-----------------------------------------------------------------------------
(* The code Define emits, clause by clause *)

MarkAt(k, j, w) ==
    CHOOSE i \in 1..Len(stream.code) :
        stream.code[i].op = "mark" /\ stream.code[i].e = [k |-> k, j |-> j, w |-> w]

\* the statements Define.begin of clause j on node k emitted
BeginCode(k, j) ==
    {i \in 1..Len(stream.code) :
        /\ MarkAt(k, j, "pre") < i
        /\ \A m \in (MarkAt(k, j, "pre") + 1)..i : stream.code[m].op # "mark"}

\* the statements Define.end of clause j on node k emitted
EndCode(k, j) ==
    {i \in 1..Len(stream.code) :
        /\ i < MarkAt(k, j, "post")
        /\ \A m \in i..(MarkAt(k, j, "post") - 1) : stream.code[m].op # "mark"}

\* the names clause j of node k binds for the first time on its node
NewlyBound(k, j) ==
    DeclNames(input.nodes[k][j]) \
        UNION {DeclNames(input.nodes[k][h]) : h \in 1..(j - 1)}

\* the statements in the end code of node k that restore or unbind x
Releases(k, x) ==
    {ji \in (1..Len(input.nodes[k])) \X (1..Len(stream.code)) :
        /\ ji[2] \in EndCode(k, ji[1])
        /\ stream.code[ji[2]].op \in {"copy", "del"}
        /\ stream.code[ji[2]].x = x}

\* C23 (as claimed): over LIFO-nested defines, two of the same name on one
\* node included, Define.end restores a name from a temporary only if the
\* matching begin saved the outer value into that temporary, unbinds a name
\* only if the matching begin newly bound it in the innermost scope, and
\* every declared name is restored or unbound exactly once.
C23_EndUndoesBegin ==
    phase = "run" =>
        /\ \A kj \in DefineIds :
              \A i \in EndCode(kj[1], kj[2]) :
                  LET l == stream.code[i]
                  IN  /\ l.op = "copy" =>
                            \E b \in BeginCode(kj[1], kj[2]) :
                                /\ stream.code[b].op = "copy"
                                /\ stream.code[b].x = l.y
                                /\ stream.code[b].y = l.x
                      /\ l.op = "del" => l.x \in NewlyBound(kj[1], kj[2])
        /\ \A k \in 1..Len(input.nodes) :
              \A x \in UNION {DeclNames(input.nodes[k][j]) :
                                 j \in 1..Len(input.nodes[k])} :
                  Cardinality(Releases(k, x)) = 1

SameNameTwice ==
    \E k \in 1..Len(input.nodes) :
        \E h, j \in 1..Len(input.nodes[k]) :
            h < j /\ DeclNames(input.nodes[k][h]) \cap DeclNames(input.nodes[k][j]) # {}

\* the claim holds when no node declares a name twice
C23_DistinctNames == ~SameNameTwice => C23_EndUndoesBegin

\* a is a declared parameter and one node defines it twice: the end code of
\* the second define restores a from a temporary nothing was saved into
C23_RestoreWithoutSave ==
    /\ phase = "run" /\ input.params = {"a"}
    /\ input.nodes = << << <<"a">>, <<"a">> >> >>
    /\ \E i \in EndCode(1, 2) :
          /\ stream.code[i].op = "copy" /\ stream.code[i].x = "a"
          /\ \A b \in BeginCode(1, 2) : stream.code[b].op # "copy"
    /\ rt[1].status = "raised"

\* a is bound nowhere and one node defines it twice: a is unbound twice
C23_UnboundTwice ==
    /\ phase = "run" /\ input.params = {}
    /\ input.nodes = << << <<"a">>, <<"a">> >> >>
    /\ Cardinality(Releases(1, "a")) = 2

-----------------------------------------------------------------------------
(* Scenario: a node with a repeat over a sequence, rendered once or twice *)

Item(k) == "item" \o ToString(k)

ItemsOf(n) == [k \in 1..n |-> Item(k)]

\* where the loop variable is bound before the loop: nowhere, as a declared
\* parameter, or by a define clause of the same node
Priors == {"unbound", "param", "define"}

InitRepeatWith(rs) ==
    /\ input \in [sc : {"repeat"},
                  n : 0..MaxItems,
                  kind : {"list", "iter"},
                  prior : Priors,
                  renders : {rs},
                  unicode_required_flag : {TRUE}]
    /\ stream = SeedScope(NewStream, IF input.prior = "param" THEN {"i"} ELSE {})
    /\ phase = "begin"
    /\ rt = [r \in Renders |->
                [InitRt EXCEPT
                    !.env["i"] = IF input.prior = "param" THEN Obj(<<"p", "i">>)
                                 ELSE Unbound,
                    !.heap = IF input.kind = "iter"
                             THEN <<[items |-> ItemsOf(input.n), pos |-> 0]>>
                             ELSE <<>>]]
    /\ repeat = [x \in ProgNames |-> NoEntry]

InitRepeat == InitRepeatWith({1})

\* the iterable expression: a list, or an iterator made beforehand
RepeatExpr ==
    IF input.kind = "list" THEN Value("const", List(ItemsOf(input.n)), 1)
    ELSE Value("const", Iter(1), 1)

LoopDefine == Value("const", Obj(<<"d", "i">>), 2)

\* Node.begin: push a scope frame, begin the define (if any) and the repeat;
\* the loop body reads the descriptor and writes a literal
RepeatNodeBegin ==
    /\ input.sc = "repeat"
    /\ phase = "begin"
    /\ stream' =
           Let([stream EXCEPT !.scope = Append(@, {})], LAMBDA s1 :
           Let(IF input.prior = "define"
               THEN DefineBegin(s1, <<"i">>, LoopDefine) ELSE s1, LAMBDA s2 :
           Let(RepeatBegin(write(s2, Mark(1, 1, "pre")), "i", RepeatExpr),
               LAMBDA s3 :
               out(write(s3, Line("probe", <<>>, "i", "", <<>>)), <<"x">>))))
    /\ phase' = "end"
    /\ UNCHANGED <<input, rt, repeat>>

\* Node.end: end the repeat and the define, pop the scope frame
RepeatNodeEnd ==
    /\ input.sc = "repeat"
    /\ phase = "end"
    /\ stream' =
           Let(write(RepeatEnd(stream, "i"), Mark(1, 1, "post")), LAMBDA s1 :
           Let(IF input.prior = "define" THEN DefineEnd(s1, <<"i">>) ELSE s1,
               LAMBDA s2 :
               getvalue([s2 EXCEPT !.scope = SubSeq(@, 1, Len(@) - 1)])))
    /\ rt' = Launch(input.renders, stream'.code)
    /\ phase' = "run"
    /\ UNCHANGED <<input, repeat>>

NextRepeat == RepeatNodeBegin \/ RepeatNodeEnd \/ Exec(1)

SpecRepeat == InitRepeat /\ [][NextRepeat]_vars

\* two renders of the compiled code, interleaved statement by statement
InitRepeat2 == InitRepeatWith({1, 2})

NextRepeat2 == RepeatNodeBegin \/ RepeatNodeEnd \/ Exec(1) \/ Exec(2)

SpecRepeat2 == InitRepeat2 /\ [][NextRepeat2]_vars

-----------------------------------------------------------------------------
(* Claims about Repeat *)

\* the log entries of a render that the loop body wrote, in order
Probes(st) == SelectSeq(st.log, LAMBDA e : e.label.w = "probe")

Marked(st, w) == \E i \in 1..Len(st.log) : st.log[i].label.w = w

\* C4: a Repeat over n items runs its body n times in sequence order; in
\* iteration k (0-based) the loop variable is item k and the descriptor found
\* under the loop variable's name has index k, is-first only at 0, is-last
\* only at n-1, number k+1, and odd/even alternating from odd = false.
C4_RepeatDescriptors ==
    LET st == rt[1]
        ps == Probes(st)
    IN  /\ \A k \in 1..Len(ps) :
              /\ k <= input.n
              /\ ps[k].env["i"] = Obj(<<Item(k)>>)
              /\ ps[k].d.index = k - 1
              /\ ps[k].d.start = (k = 1)
              /\ ps[k].d.end = (k = input.n)
              /\ ps[k].d.number = k
              /\ ps[k].d.odd = ((k - 1) % 2 = 1)
              /\ ps[k].d.even = ((k - 1) % 2 = 0)
        /\ Marked(st, "post") => Len(ps) = input.n
        /\ st.status = "raised" => Marked(st, "post")

\* the loop over the longest sequence has ended after all its iterations
C4_Witness ==
    /\ phase = "run" /\ input.n = MaxItems /\ Marked(rt[1], "post")
    /\ Len(Probes(rt[1])) = MaxItems
    /\ Probes(rt[1])[MaxItems].d.end

\* C5 (as claimed): a Repeat over an empty iterable runs its body zero times,
\* and after the loop's end code the loop variable is bound as it was before
\* the loop (unbound if it was unbound).
C5_EmptyRepeatNoResidue ==
    LET st == rt[1]
    IN  input.n = 0 =>
           /\ Probes(st) = <<>>
           /\ \A p \in LogAt(st, 1, 1, "pre"), q \in LogAt(st, 1, 1, "post") :
                 st.log[p].env["i"] = st.log[q].env["i"]

\* C6 (as claimed): once the loop has ended, after zero or more iterations,
\* the registry no longer holds the entry the loop stored under the loop
\* variable's name.
C6_RegistryClearedAtLoopEnd ==
    Marked(rt[1], "post") => repeat["i"] = NoEntry

-----------------------------------------------------------------------------
(* Scenario: a Tag with static and dynamic attributes *)

MaxAttrs == 2

StaticValues == {Text("str", <<"v">>), Text("str", <<"\"", "&">>)}

\* what a dynamic attribute's expression evaluates to
DynamicValues ==
    {None, Str(<<>>), Str(<<"a", "\"", "<">>), Uni(<<"U+F1", "\"">>), Obj(<<"7">>)}

AttrSpecs ==
    [dyn : {FALSE}, v : StaticValues] \cup [dyn : {TRUE}, v : DynamicValues]

AttrName(i) == "n" \o ToString(i)

\* the attributes of the tag in the order the attribute dict yields them
TagAttributes ==
    [i \in 1..Len(input.attrs) |->
        [name |-> AttrName(i),
         value |-> IF input.attrs[i].dyn
                   THEN Value("const", input.attrs[i].v, i)
                   ELSE input.attrs[i].v]]

InitTag ==
    /\ input \in [sc : {"tag"},
                  tag : [ns : {"", "{ns}"}, local : {"div"}],
                  attrs : UNION {[1..k -> AttrSpecs] : k \in 0..MaxAttrs},
                  selfclosing : BOOLEAN,
                  unicode_required_flag : BOOLEAN]
    /\ stream = NewStream
    /\ phase = "begin"
    /\ rt = [r \in Renders |-> InitRt]
    /\ repeat = [x \in ProgNames |-> NoEntry]

TagBeginAct ==
    /\ input.sc = "tag"
    /\ phase = "begin"
    /\ stream' = TagBegin(stream, input.tag, TagAttributes, input.selfclosing,
                          input.unicode_required_flag)
    /\ phase' = "end"
    /\ UNCHANGED <<input, rt, repeat>>

TagEndAct ==
    /\ input.sc = "tag"
    /\ phase = "end"
    /\ stream' = getvalue(TagEnd(stream, input.tag, input.selfclosing))
    /\ phase' = "run"
    /\ rt' = Launch({1}, stream'.code)
    /\ UNCHANGED <<input, repeat>>

NextTag == TagBeginAct \/ TagEndAct \/ Exec(1)

SpecTag == InitTag /\ [][NextTag]_vars

-----------------------------------------------------------------------------
(* Claims about Tag *)

\* the bytes of a non-null value
BytesOf(v) == IF v.t = "unicode" THEN Utf8Encode(v.v) ELSE v.v

\* what attribute i contributes to the rendered tag
AttrRendering(i) ==
    LET a == input.attrs[i]
    IN  IF ~a.dyn
        THEN <<" ", AttrName(i), "=", "\"">> \o escape(a.v.s, TRUE) \o <<"\"">>
        ELSE IF a.v = None THEN <<>>
        ELSE <<" ", AttrName(i), "=", "\"">> \o escape(BytesOf(a.v), TRUE)
             \o <<"\"">>

RECURSIVE AttrsRendering(_, _)
AttrsRendering(i, dyn) ==
    IF i > Len(input.attrs) THEN <<>>
    ELSE (IF input.attrs[i].dyn = dyn THEN AttrRendering(i) ELSE <<>>)
         \o AttrsRendering(i + 1, dyn)

TagRendering ==
    <<"<", "div">> \o AttrsRendering(1, FALSE) \o AttrsRendering(1, TRUE)
    \o (IF input.selfclosing THEN <<" ", "/", ">">>
        ELSE <<">", "<", "/", "div", ">">>)

\* C8: the rendered tag holds, for every dynamic attribute, nothing at all
\* when its expression evaluated to null, and otherwise exactly one
\* name="value" with the value escaped against the double quote; the render
\* never fails on an attribute value.
C8_DynamicAttributeOmittedOrQuoted ==
    /\ rt[1].status # "raised"
    /\ rt[1].status = "done" => rt[1].bufs[1] = TagRendering

\* a rendered tag with a null attribute and one whose value holds a quote
C8_Witness ==
    /\ phase = "run" /\ rt[1].status = "done"
    /\ Len(input.attrs) = 2
    /\ input.attrs[1] = [dyn |-> TRUE, v |-> None]
    /\ input.attrs[2] = [dyn |-> TRUE, v |-> Uni(<<"U+F1", "\"">>)]
    /\ rt[1].bufs[1] = TagRendering

-----------------------------------------------------------------------------
(* Scenario: a Write of a content expression *)

\* what the content expression evaluates to
WriteValues ==
    {None, Str(<<"<", "a">>), Uni(<<"<", "b">>), Uni(<<"U+F1", "&">>),
     Obj(<<"<", "7">>)}

\* the content expression: a plain value, a structure parts or an escape;
\* a parts may fall back from a candidate that raises
WriteExpr ==
    LET val == Value("const", input.result, 2)
        items == IF input.fallback THEN <<Value("raise", "Exception", 1), val>>
                 ELSE <<val>>
    IN  CASE input.kind = "value" -> val
          [] input.kind = "parts" -> Parts(items)
          [] input.kind = "escape" -> Escape(items)

InitWrite ==
    /\ input \in [sc : {"write"},
                  kind : {"value", "parts", "escape"},
                  result : WriteValues,
                  fallback : BOOLEAN,
                  unicode_required_flag : BOOLEAN]
    /\ stream = NewStream
    /\ phase = "begin"
    /\ rt = [r \in Renders |-> InitRt]
    /\ repeat = [x \in ProgNames |-> NoEntry]

WriteBeginAct ==
    /\ input.sc = "write"
    /\ phase = "begin"
    /\ stream' = WriteBegin(stream, WriteExpr, input.unicode_required_flag)
    /\ phase' = "end"
    /\ UNCHANGED <<input, rt, repeat>>

WriteEndAct ==
    /\ input.sc = "write"
    /\ phase = "end"
    /\ stream' = getvalue(WriteEnd(stream, WriteExpr))
    /\ phase' = "run"
    /\ rt' = Launch({1}, stream'.code)
    /\ UNCHANGED <<input, repeat>>

NextWrite == WriteBeginAct \/ WriteEndAct \/ Exec(1)

SpecWrite == InitWrite /\ [][NextWrite]_vars

-----------------------------------------------------------------------------
(* Claims about Write *)

\* C9 (as claimed): a null result writes nothing; an escape expression writes
\* the escaped bytes of its value whatever the value's runtime type; any
\* other expression writes the bytes of its value unescaped.
C9_WriteEscapesEscapedKind ==
    rt[1].status = "done" =>
        rt[1].bufs[1] =
            IF input.result = None THEN <<>>
            ELSE IF input.kind = "escape"
            THEN escape(BytesOf(input.result), FALSE)
            ELSE BytesOf(input.result)

-----------------------------------------------------------------------------
(* translation.Node: serialize and the visit of a node *)

\* a text that may be None
PyNone == [some |-> FALSE, s |-> <<>>]
PyStr(s) == [some |-> TRUE, s |-> s]

NoExpr == [k |-> "none"]

\* "not (%s)" % value
_not(value) == Value("not", value.c, value.id)

\* mutant: the text of the node is left out of the decision
SelfClosingWithoutText(n) ==
    n.content = NoExpr /\ n.translate = "none" /\ Len(n.children) = 0

\* "text is None and not dynamic and len(self.element) == 0"
SelfClosing(n) ==
    /\ ~n.text.some
    /\ ~(n.content # NoExpr \/ n.translate # "none")
    /\ Len(n.children) = 0

TextOf(text) == IF text.some THEN text.s ELSE <<>>

\* element.tostring() of a child without content of its own: the element
\* as it is written in the document, its tail included
ToString_(child) == <<"<", child.tag.local, " ", "/", ">">> \o TextOf(child.tail)

\* "%s['%s']" % (mapping, name)
MappingItem(name) == "_mapping[" \o name \o "]"

\* "elements = [e for e in self.element if e.node.translation_name]"
Named(children) == SelectSeq(children, LAMBDA e : e.name # "")

\* the group that renders a named child into a buffer of its own and keeps
\* the text under the child's name
NamedBlock(element) ==
    GroupClause(<<DefineClause(<<"_out", "_write">>, Value("initstream", "", 93)),
                  VisitClause(element),
                  AssignClause(Value("getvalue", "", 94),
                               <<MappingItem(element.name)>>)>>)

\* the fallback for one child: the kept text of a named child, the
\* document text of any other
Fallback(element) ==
    IF element.name # ""
    THEN WriteClause(Value("name", MappingItem(element.name), 95))
    ELSE OutClause(ToString_(element), FALSE)

\* the clauses of the translated body: the catalog is asked with the marker
\* as default; the answer is written if it is not the marker, else the text
\* and the children are
TranslateBody(n) ==
    LET elements == Named(n.children)
        subclauses ==
            (IF n.text.some /\ n.text.s # <<>>
             THEN <<OutClause(n.text.s, FALSE)>> ELSE <<>>)
            \o [i \in 1..Len(n.children) |-> Fallback(n.children[i])]
    IN  (IF elements # <<>>
         THEN <<AssignClause(Value("const", Obj(<<>>), 96), <<"_mapping">>)>>
         ELSE <<>>)
        \o [i \in 1..Len(elements) |-> NamedBlock(elements[i])]
        \o <<AssignClause(Value("translate", n.catalog, 90), <<"_result">>),
              ConditionClause(Value("isnot", "_result", 91),
                              <<UnicodeWriteClause(Value("name", "_result", 92))>>,
                              TRUE)>>
        \o (IF subclauses # <<>> THEN <<ElseClause(subclauses)>> ELSE <<>>)

\* Node.serialize: defines, tail, condition, repeat, tag, text, content or
\* translated body
\* the names of a set in some order (the order a set is iterated in)
RECURSIVE SeqOf(_)
SeqOf(S) == IF S = {} THEN <<>>
            ELSE Let(CHOOSE x \in S : TRUE, LAMBDA x : <<x>> \o SeqOf(S \ {x}))

\* itertools.chain(*scope)
RECURSIVE chain(_, _)
chain(scope, i) ==
    IF i > Len(scope) THEN <<>> ELSE SeqOf(scope[i]) \o chain(scope, i + 1)

SlotName(name) == "_slot_" \o name

\* the elements of the node that fill a slot
FillSlots(children) == SelectSeq(children, LAMBDA child : child.fill_slot # "")

\* a new output stream for the fill-slot element, its value in a variable
SlotBlock(element) ==
    GroupClause(<<DefineClause(<<"_out", "_write">>, Value("initstream", "", 97)),
                  VisitClause(element),
                  AssignClause(Value("getvalue", "", 98),
                               <<SlotName(element.fill_slot)>>)>>)

\* Node.serialize, use macro: the slot blocks, the macro, the call
UseMacro(n, scope) ==
    LET elements == FillSlots(n.children)
        kwargs == [i \in 1..Len(elements) |-> SlotName(elements[i].fill_slot)]
        arguments == chain(scope, 1) \o kwargs
    IN  [i \in 1..Len(elements) |-> SlotBlock(elements[i])]
        \o <<AssignClause(n.use_macro, <<"_metal">>),
              WriteClause(Value("call", arguments, 99))>>

serialize(n, scope) ==
    LET dynamic == n.content # NoExpr \/ n.translate # "none"
        \* variable definitions
        defines == [i \in 1..Len(n.define) |->
                       DefineClause(n.define[i].declaration, n.define[i].expression)]
        \* tag tail (deferred)
        tail == IF n.tail.some /\ n.tail.s # <<>> /\ n.fill_slot = ""
                THEN <<OutClause(n.tail.s, TRUE)>> ELSE <<>>
        \* condition
        condition == IF n.condition # NoExpr
                     THEN <<ConditionClause(n.condition, <<>>, TRUE)>> ELSE <<>>
        \* repeat
        repeat_ == IF n.repeat # NoExpr
                   THEN <<RepeatClause(n.repeat.variable, n.repeat.expression)>>
                   ELSE <<>>
        \* tag
        tag == TagClause(n.tag, <<>>, SelfClosing(n))
        tagc == IF n.omit.k = "always" THEN <<>>
                ELSE IF n.omit.k = "expr"
                THEN <<ConditionClause(_not(n.omit.e), <<tag>>, FALSE)>>
                ELSE <<tag>>
        \* tag text (if we're not replacing tag body)
        text == IF n.text.some /\ n.text.s # <<>> /\ ~dynamic
                THEN <<OutClause(n.text.s, FALSE)>> ELSE <<>>
        \* dynamic content, or translate body
        body == IF n.content # NoExpr THEN <<WriteClause(n.content)>>
                ELSE IF n.use_macro # NoExpr THEN UseMacro(n, scope)
                ELSE IF n.translate # "none" THEN TranslateBody(n)
                ELSE <<>>
    IN  defines \o tail \o condition \o repeat_ \o tagc \o text \o body

\* the body is skipped when the content or a translation replaces it
skip(n) == n.content # NoExpr \/ n.translate # "none" \/ n.use_macro # NoExpr

\* Node.begin
NodeBegin(s, n, flag) ==
    Let([s EXCEPT !.scope = Append(@, {})], LAMBDA s1 :
        begin(s1, serialize(n, s1.scope), flag))

\* mutant: the scope frame of the node is left on the stack
NodeEndNoPop(s, n) == end(s, serialize(n, s.scope))

\* Node.end
NodeEnd(s, n) ==
    [end(s, serialize(n, s.scope)) EXCEPT !.scope = SubSeq(@, 1, Len(@) - 1)]

\* the directives of a node that has none but those named in the record
NoDirectives ==
    [name |-> "", fill_slot |-> "", define |-> <<>>, condition |-> NoExpr,
     repeat |-> NoExpr, use_macro |-> NoExpr]

WithDirectives(n, d) ==
    [x \in DOMAIN n \cup DOMAIN d |-> IF x \in DOMAIN n THEN n[x] ELSE d[x]]

\* the element that update inserts for "${a}"
Interpolation ==
    WithDirectives(
        [tag |-> [ns |-> "{meta}", local |-> "interpolation"], text |-> PyNone,
         tail |-> PyNone, content |-> Parts(<<Value("name", "a", 80)>>),
         translate |-> "none", catalog |-> Marker,
         omit |-> [k |-> "always", e |-> ValueNone], children |-> <<>>],
        NoDirectives)

HasVariable(text) == text.some /\ \E i \in 1..Len(text.s) : text.s[i] = "${a}"

\* the text before "${a}", "${a}" being the last piece
BeforeVariable(text) == PyStr(SelectSeq(text.s, LAMBDA x : x # "${a}"))

\* body: "for element in self.element: element.node.update()"; an element
\* whose tail holds a variable gets the interpolation element as its next
\* sibling, and the loop goes on with that one
RECURSIVE UpdateChildren(_, _)
UpdateChildren(children, i) ==
    Let(children, LAMBDA c :
        IF i > Len(c) THEN c
        ELSE IF HasVariable(c[i].tail)
        THEN UpdateChildren(
                 SubSeq(c, 1, i - 1)
                 \o <<[c[i] EXCEPT !.tail = BeforeVariable(@)], Interpolation>>
                 \o SubSeq(c, i + 1, Len(c)), i + 1)
        ELSE UpdateChildren(c, i + 1))

\* Node.visit of an element without children
VisitLeaf(s, n, flag) == NodeEnd(NodeBegin(s, n, flag), n)

\* Node.update of the node itself: what is left of its tail; the element for
\* the variable goes into the parent, after the node
Updated(n) == IF HasVariable(n.tail) THEN [n EXCEPT !.tail = BeforeVariable(@)] ELSE n

\* the children of a translated node once begin has visited the named ones:
\* each of them has been updated, the others have not
RECURSIVE UpdateNamed(_, _)
UpdateNamed(children, i) ==
    Let(children, LAMBDA c :
        IF i > Len(c) THEN c
        ELSE IF c[i].name # "" /\ HasVariable(c[i].tail)
        THEN UpdateNamed(SubSeq(c, 1, i - 1) \o <<Updated(c[i]), Interpolation>>
                         \o SubSeq(c, i + 1, Len(c)), i + 2)
        ELSE UpdateNamed(c, i + 1))

\* the node after its begin, and after its body
AfterBegin(n) ==
    IF n.translate # "none" THEN [n EXCEPT !.children = UpdateNamed(@, 1)] ELSE n

AfterBody(n) ==
    IF skip(n) THEN n ELSE [n EXCEPT !.children = UpdateChildren(@, 1)]

\* Node.body, second loop
RECURSIVE VisitAll(_, _, _, _)
VisitAll(s, children, i, flag) ==
    IF i > Len(children) THEN s
    ELSE Let(NodeVisit(s, children[i], flag),
             LAMBDA s1 : VisitAll(s1, children, i + 1, flag))

\* Node.visit: update, begin, body, end
NodeVisit(s, n, flag) ==
    Let(Updated(n), LAMBDA n1 :
    Let(NodeBegin(s, n1, flag), LAMBDA s1 :
    Let(AfterBody(AfterBegin(n1)), LAMBDA n2 :
        NodeEnd(IF skip(n1) THEN s1 ELSE VisitAll(s1, n2.children, 1, flag), n2))))

-----------------------------------------------------------------------------
(* Scenario: the visit of a node with text, content, translation, children *)

MaxChildren == 2

Omits == {[k |-> "no", e |-> ValueNone], [k |-> "always", e |-> ValueNone],
          [k |-> "expr", e |-> Value("name", "c", 70)]}

Br(tail) ==
    WithDirectives(
        [tag |-> [ns |-> "{ns}", local |-> "br"], text |-> PyNone, tail |-> tail,
         content |-> NoExpr, translate |-> "none", catalog |-> Marker,
         omit |-> [k |-> "no", e |-> ValueNone], children |-> <<>>],
        NoDirectives)

ChildElements == {Br(PyNone), Br(PyStr(<<"y">>)), Br(PyStr(<<"p", "${a}">>))}

Contents ==
    {NoExpr, Parts(<<Value("const", Str(<<"c", "<">>), 60)>>),
     Escape(<<Value("const", Str(<<"c", "<">>), 60)>>)}

\* the node as the parser hands it over: a content or a translation comes
\* without element children, and an element without text has text None
Nodes ==
    {n \in [tag : {[ns |-> "{ns}", local |-> "div"]},
            text : {PyNone, PyStr(<<"t">>)},
            tail : {PyNone, PyStr(<<"z">>)},
            content : Contents,
            translate : {"none", "auto"},
            catalog : {Marker, Uni(<<"T">>)},
            omit : Omits,
            children : UNION {[1..k -> ChildElements] : k \in 0..MaxChildren},
            name : {""}, fill_slot : {""}, define : {<<>>}, condition : {NoExpr},
            repeat : {NoExpr}, use_macro : {NoExpr}] :
        /\ n.content # NoExpr => n.translate = "none" /\ n.children = <<>>
        /\ n.translate # "none" => n.children = <<>>
        /\ n.translate = "none" => n.catalog = Marker}

InitNode ==
    /\ input \in [sc : {"node"}, node : Nodes, visited : {0}, omitval : BOOLEAN,
                  unicode_required_flag : {TRUE}]
    /\ input.node.omit.k # "expr" => input.omitval
    /\ stream = NewStream
    /\ phase = "begin"
    /\ rt = [r \in Renders |->
                [InitRt EXCEPT !.env["a"] = Str(<<"X">>),
                               !.env["c"] = Bool(input.omitval)]]
    /\ repeat = [x \in ProgNames |-> NoEntry]

\* Node.visit, first part: begin
VisitBegin ==
    /\ input.sc = "node"
    /\ phase = "begin"
    /\ stream' = NodeBegin(stream, input.node, input.unicode_required_flag)
    /\ input' = [input EXCEPT !.node = AfterBegin(@)]
    /\ phase' = "body"
    /\ UNCHANGED <<rt, repeat>>

\* Node.body, first loop: the children are updated
VisitBody ==
    /\ input.sc = "node"
    /\ phase = "body"
    /\ LET children == IF skip(input.node) THEN input.node.children
                       ELSE UpdateChildren(input.node.children, 1)
       IN  /\ input' = [input EXCEPT !.node.children = children]
           /\ phase' = IF skip(input.node) \/ children = <<>> THEN "end"
                       ELSE "visit"
    /\ UNCHANGED <<stream, rt, repeat>>

\* Node.body, second loop: one step per child visited
VisitChild ==
    /\ input.sc = "node"
    /\ phase = "visit"
    /\ stream' = VisitLeaf(stream, input.node.children[input.visited + 1],
                           input.unicode_required_flag)
    /\ input' = [input EXCEPT !.visited = @ + 1]
    /\ phase' = IF input.visited + 1 = Len(input.node.children) THEN "end"
                ELSE "visit"
    /\ UNCHANGED <<rt, repeat>>

\* Node.visit, last part: end; the compiled code is then rendered
VisitEnd ==
    /\ input.sc = "node"
    /\ phase = "end"
    /\ stream' = getvalue(NodeEnd(stream, input.node))
    /\ phase' = "run"
    /\ rt' = Launch({1}, stream'.code)
    /\ UNCHANGED <<input, repeat>>

NextNode == VisitBegin \/ VisitBody \/ VisitChild \/ VisitEnd \/ Exec(1)

SpecNode == InitNode /\ [][NextNode]_vars

-----------------------------------------------------------------------------
(* Claims about the tag of a node *)

\* what a child contributes to the output once it has been updated
ChildRendering(child) ==
    IF child.content # NoExpr THEN <<"X">>
    ELSE <<"<", child.tag.local, " ", "/", ">">> \o TextOf(child.tail)

RECURSIVE ChildrenRendering(_)
ChildrenRendering(children) ==
    IF children = <<>> THEN <<>>
    ELSE ChildRendering(Head(children)) \o ChildrenRendering(Tail(children))

\* what the node writes between its open and its close tag
BodyRendering(n) ==
    IF n.content # NoExpr
    THEN IF n.content.esc THEN <<"c", "&", "l", "t", ";">> ELSE <<"c", "<">>
    ELSE IF n.translate # "none" /\ n.catalog # Marker THEN <<"T">>
    ELSE TextOf(n.text) \o ChildrenRendering(n.children)

\* the node has no text, no dynamic content and no children
Bare(n) ==
    ~n.text.some /\ n.content = NoExpr /\ n.translate = "none" /\ n.children = <<>>

TagShown(n) == n.omit.k = "no" \/ (n.omit.k = "expr" /\ ~input.omitval)

NodeRendering(n) ==
    (IF ~TagShown(n) THEN BodyRendering(n)
     ELSE IF Bare(n) THEN <<"<", n.tag.local, " ", "/", ">">>
     ELSE <<"<", n.tag.local, ">">> \o BodyRendering(n)
          \o <<"<", "/", n.tag.local, ">">>)
    \o TextOf(n.tail)

C20_EmptyEndSuite ==
    /\ phase = "run" /\ Bare(input.node) /\ input.node.omit.k = "expr"
    /\ stream.code[Len(stream.code)].op = "if"
    /\ rt[1].status = "raised" /\ rt[1].err = "IndentationError"
    /\ rt[1].bufs[1] = <<>>

-----------------------------------------------------------------------------
(* Scenario: the visit of a node with a translated body and named children *)

\* the names translate_etree puts into the outermost scope
Symbols == {"_out", "_write", "_scope"}

\* a child that carries a translation name
NamedChild(name, tail, content) ==
    [Br(tail) EXCEPT !.name = name, !.content = content,
                     !.tag = [ns |-> "{ns}", local |-> "b"]]

TranslateChildren ==
    {Br(PyNone), Br(PyStr(<<"y">>))}
    \cup {NamedChild("x", tail, NoExpr) :
             tail \in {PyNone, PyStr(<<"y">>), PyStr(<<"p", "${a}">>)}}
    \cup {NamedChild("x", PyNone, Parts(<<Value("name", "a", 80)>>)),
          NamedChild("y", PyNone, NoExpr)}

\* a translated node: its children, named ones under different names
TranslateNodes ==
    {n \in [tag : {[ns |-> "{ns}", local |-> "div"]},
            text : {PyNone, PyStr(<<"t">>)},
            tail : {PyNone},
            content : {NoExpr},
            translate : {"auto", "none"},
            catalog : {Marker, Uni(<<"T">>)},
            omit : {[k |-> "no", e |-> ValueNone]},
            children : UNION {[1..k -> TranslateChildren] : k \in 0..MaxChildren},
            name : {""}, fill_slot : {""}, define : {<<>>}, condition : {NoExpr},
            repeat : {NoExpr}, use_macro : {NoExpr}] :
        \A i, j \in 1..Len(n.children) :
            (i # j /\ n.children[i].name # "") =>
                n.children[i].name # n.children[j].name}

InitTranslate ==
    /\ \E n \in TranslateNodes, flag \in BOOLEAN :
           input = [sc |-> "node", node |-> n, document |-> n, visited |-> 0,
                    omitval |-> TRUE, unicode_required_flag |-> flag]
    /\ stream = SeedScope(NewStream, Symbols)
    /\ phase = "begin"
    /\ rt = [r \in Renders |-> [InitRt EXCEPT !.env["a"] = Str(<<"X">>),
                                              !.env["c"] = Bool(TRUE)]]
    /\ repeat = [x \in ProgNames |-> NoEntry]

SpecTranslate == InitTranslate /\ [][NextNode]_vars

\* the text of a document with its variables replaced by their values
Interpolated(text) ==
    [i \in 1..Len(TextOf(text)) |->
        IF TextOf(text)[i] = "${a}" THEN "X" ELSE TextOf(text)[i]]

\* what the visit of a child of the document writes: its markup, then its tail
DocumentRendering(child) ==
    (IF child.content # NoExpr
       THEN <<"<", child.tag.local, ">", "X", "<", "/", child.tag.local, ">">>
       ELSE <<"<", child.tag.local, " ", "/", ">">>)
    \o Interpolated(child.tail)

RECURSIVE FallbackRendering(_, _)
FallbackRendering(children, i) ==
    IF i > Len(children) THEN <<>>
    ELSE (IF children[i].name # "" THEN DocumentRendering(children[i])
          ELSE <<"<", children[i].tag.local, " ", "/", ">">> \o TextOf(children[i].tail))
         \o FallbackRendering(children, i + 1)

\* the body a translated node is claimed to write
TranslatedBody(n) ==
    IF n.catalog # Marker THEN n.catalog.v
    ELSE TextOf(n.text) \o FallbackRendering(n.children, 1)

\* C11: a render of a translated node never raises and writes, between the
\* tags, either the catalog's answer or the fallback: the literal text, then
\* the children in document order, a named child as its captured rendering
C11_TranslateOrFallback ==
    /\ rt[1].status # "raised"
    /\ (phase = "run" /\ rt[1].status = "done" /\ input.document.translate # "none") =>
          rt[1].bufs[1] = <<"<", "div", ">">> \o TranslatedBody(input.document)
                          \o <<"<", "/", "div", ">">>

\* the catalog has no answer and a named child's tail carries a variable:
\* the render is over and the variable's value is not in the output
C11_DroppedTail ==
    /\ phase = "run" /\ rt[1].status = "done"
    /\ input.document.translate # "none" /\ input.document.catalog = Marker
    /\ \E i \in 1..Len(input.document.children) :
          /\ input.document.children[i].name # ""
          /\ HasVariable(input.document.children[i].tail)
    /\ \A k \in 1..Len(rt[1].bufs[1]) : rt[1].bufs[1][k] # "X"

\* without a variable in the tail of a named child the claim's two cases hold
C11_StaticTails ==
    (\A i \in 1..Len(input.document.children) :
        input.document.children[i].name # "" =>
            ~HasVariable(input.document.children[i].tail))
    => C11_TranslateOrFallback

-----------------------------------------------------------------------------
(* Scenario: the visit of a node with define, condition and repeat *)

DirectiveNodes ==
    {n \in [tag : {[ns |-> "{ns}", local |-> "div"]},
            text : {PyNone, PyStr(<<"t">>)},
            tail : {PyNone, PyStr(<<"z">>)},
            content : {NoExpr, Parts(<<Value("name", "a", 80)>>)},
            translate : {"none", "auto"},
            catalog : {Marker},
            omit : {[k |-> "no", e |-> ValueNone],
                    [k |-> "expr", e |-> Value("name", "c", 70)]},
            children : UNION {[1..k -> {Br(PyNone), Br(PyStr(<<"p", "${a}">>))}] :
                                 k \in 0..MaxChildren}
                       \cup {<<NamedChild("x", PyStr(<<"p", "${a}">>), NoExpr)>>},
            name : {""},
            fill_slot : {"", "x"},
            define : {<<>>, <<[declaration |-> <<"b">>,
                               expression |-> Value("const", Obj(<<"d", "b">>), 84)]>>},
            condition : {NoExpr, Value("name", "d", 82)},
            repeat : {NoExpr} \cup
                     {[variable |-> "i",
                       expression |-> Value("const", List(ItemsOf(k)), 83)] :
                          k \in {0, 2}},
            use_macro : {NoExpr}] :
        /\ n.fill_slot # "" => n.tail.some
        /\ n.content # NoExpr => n.translate = "none" /\ n.children = <<>>
        /\ n.translate # "none" <=>
              n.children = <<NamedChild("x", PyStr(<<"p", "${a}">>), NoExpr)>>}

InitDirectives ==
    /\ \E n \in DirectiveNodes, omitval, condval \in BOOLEAN :
           /\ n.omit.k # "expr" => omitval
           /\ n.condition = NoExpr => condval
           /\ input = [sc |-> "node", node |-> n, document |-> n, visited |-> 0,
                       omitval |-> omitval, condval |-> condval,
                       unicode_required_flag |-> TRUE]
    /\ stream = SeedScope(NewStream, Symbols)
    /\ phase = "begin"
    /\ rt = [r \in Renders |-> [InitRt EXCEPT !.env["a"] = Str(<<"X">>),
                                              !.env["c"] = Bool(input.omitval),
                                              !.env["d"] = Bool(input.condval)]]
    /\ repeat = [x \in ProgNames |-> NoEntry]

SpecDirectives == InitDirectives /\ [][NextNode]_vars

\* the statements of the code that write the text
WritesOf(code, text) ==
    {k \in 1..Len(code) :
        code[k].op = "outlit" /\ \E j \in 1..Len(code[k].e) : code[k].e[j] = text}

\* how often the text is in the output
Occurrences(output, text) == Cardinality({k \in 1..Len(output) : output[k] = text})

\* the kinds of the clauses of a list, in order
Kinds(clauses) == [i \in 1..Len(clauses) |-> clauses[i].c]

\* the scope stack as Node.begin saw it when it called serialize
ScopeAtBegin == Append(SubSeq(stream.scope, 1, Len(stream.scope) - 1), {})

C13_TailOnceAfterBlock ==
    (phase = "run" /\ input.document.tail.some /\ input.document.fill_slot = "")
    => /\ Cardinality(WritesOf(stream.code, "z")) = 1
       /\ \A k \in WritesOf(stream.code, "z") :
             /\ stream.code[k].ind = 0
             /\ stream.code[k].e[Len(stream.code[k].e)] = "z"
             /\ \A j \in (k + 1)..Len(stream.code) : stream.code[j].op # "outlit"
       /\ rt[1].status = "done" =>
             /\ Occurrences(rt[1].bufs[1], "z") = 1
             /\ rt[1].bufs[1][Len(rt[1].bufs[1])] = "z"

\* a finished render of a node with a tail whose condition is false and whose
\* loop has two items
C13_Witness ==
    /\ phase = "run" /\ rt[1].status = "done"
    /\ input.document.tail.some /\ input.document.fill_slot = ""
    /\ input.document.condition # NoExpr /\ ~input.condval
    /\ input.document.repeat # NoExpr
    /\ input.document.repeat.expression.c.v # <<>>
    /\ rt[1].bufs[1] = <<"z">>

\* the same node with a true condition: the block is written for each item
C13_WitnessLoop ==
    /\ phase = "run" /\ rt[1].status = "done"
    /\ input.document.tail.some /\ input.document.fill_slot = ""
    /\ input.document.condition # NoExpr /\ input.condval
    /\ input.document.repeat # NoExpr
    /\ Occurrences(rt[1].bufs[1], "div") >= 4

-----------------------------------------------------------------------------
(* Literal and dynamic output of a visit, in the order of the document *)

\* the pieces of a sequence of outputs, one after the other
RECURSIVE Concat(_, _)
Concat(seqs, i) == IF i > Len(seqs) THEN <<>> ELSE seqs[i] \o Concat(seqs, i + 1)

\* what one pass over the element writes: the tag unless it is omitted, the
\* content or the text and the children, each child followed by its tail
ElementRendering(n) ==
    LET shown == n.omit.k = "no" \/ (n.omit.k = "expr" /\ ~input.omitval)
        children == [i \in 1..Len(n.children) |->
                        <<"<", "br", " ", "/", ">">> \o Interpolated(n.children[i].tail)]
        body == IF n.content # NoExpr THEN <<"X">>
                ELSE TextOf(n.text) \o Concat(children, 1)
    IN  (IF ~shown THEN <<>>
         ELSE IF SelfClosing(n) THEN <<"<", "div", " ", "/", ">">>
         ELSE <<"<", "div", ">">>)
        \o body
        \o (IF shown /\ ~SelfClosing(n) THEN <<"<", "/", "div", ">">> ELSE <<>>)

\* the element once per item of the loop, nothing under a false condition
BlockRendering(n) ==
    IF ~input.condval THEN <<>>
    ELSE IF n.repeat = NoExpr THEN ElementRendering(n)
    ELSE Concat([k \in 1..Len(n.repeat.expression.c.v) |-> ElementRendering(n)], 1)

\* C24: queued literal output is written out before the code enters or
\* leaves a block, so the render writes literal and dynamic fragments in the
\* order the document has them; what is inside the loop is written once per
\* item, what is inside the guarded branch only when the guard holds, and
\* the tail after the block
C24_LiteralOrder ==
    (/\ phase = "run" /\ rt[1].status = "done"
     /\ input.document.translate = "none" /\ input.document.fill_slot = "")
    => rt[1].bufs[1] = BlockRendering(input.document) \o TextOf(input.document.tail)

\* a loop of two items under a true condition, the tag kept, a text and a
\* child whose tail is a literal followed by a variable
C24_Witness ==
    /\ phase = "run" /\ rt[1].status = "done"
    /\ input.document.condition # NoExpr /\ input.condval
    /\ input.document.omit.k = "expr" /\ ~input.omitval
    /\ input.document.children = <<Br(PyStr(<<"p", "${a}">>))>>
    /\ rt[1].bufs[1] = <<"<", "div", ">", "t", "<", "br", " ", "/", ">", "p", "X",
                         "<", "/", "div", ">",
                         "<", "div", ">", "t", "<", "br", " ", "/", ">", "p", "X",
                         "<", "/", "div", ">", "z">>
(* Scenario: the visit of a node that uses a macro *)

\* a descendant that fills the slot
FillChild(name) ==
    [Br(PyStr(<<"y">>)) EXCEPT !.fill_slot = name,
                               !.tag = [ns |-> "{ns}", local |-> "b"]]

\* a descendant that fills the slot with a translated body of two named
\* children: captures inside a capture
FillTranslated ==
    [FillChild("x") EXCEPT !.text = PyStr(<<"t">>), !.translate = "auto",
                           !.children = <<NamedChild("x", PyNone, NoExpr),
                                          NamedChild("y", PyStr(<<"y">>), NoExpr)>>]

MacroNodes ==
    {n \in [tag : {[ns |-> "{ns}", local |-> "div"]},
            text : {PyNone, PyStr(<<"t">>)},
            tail : {PyNone},
            content : {NoExpr},
            translate : {"none"},
            catalog : {Marker},
            omit : {[k |-> "always", e |-> ValueNone]},
            children : UNION {[1..k -> {Br(PyNone), FillChild("x"), FillChild("y"),
                                        FillTranslated}] : k \in 0..MaxChildren},
            name : {""},
            fill_slot : {""},
            define : {<<>>, <<[declaration |-> <<"b">>,
                               expression |-> Value("const", Obj(<<"d", "b">>), 84)]>>},
            condition : {NoExpr},
            repeat : {NoExpr},
            use_macro : {NoExpr, Value("const", Obj(<<"m">>), 85)}] :
        \A i, j \in 1..Len(n.children) :
            (i # j /\ n.children[i].fill_slot # "") =>
                n.children[i].fill_slot # n.children[j].fill_slot}

InitMacro ==
    /\ \E n \in MacroNodes, params \in SUBSET {"a"} :
           input = [sc |-> "node", node |-> n, document |-> n, visited |-> 0,
                    omitval |-> TRUE, params |-> params,
                    unicode_required_flag |-> TRUE]
    /\ stream = SeedScope(NewStream, Symbols \cup input.params)
    /\ phase = "begin"
    /\ rt = [r \in Renders |->
                [InitRt EXCEPT !.env["a"] = IF "a" \in input.params
                                            THEN Obj(<<"p", "a">>) ELSE Unbound]]
    /\ repeat = [x \in ProgNames |-> NoEntry]

SpecMacro == InitMacro /\ [][NextNode]_vars

\* the statements of the code that call the macro
MacroCalls ==
    {k \in 1..Len(stream.code) :
        /\ stream.code[k].op = "assign"
        /\ stream.code[k].e.f = "call"}

\* the names bound where the macro is invoked: the reserved names, the
\* declared parameters and the names the invoking node defines
ScopeAtInvocation ==
    Symbols \cup input.params
    \cup {input.document.define[i].declaration[1] :
            i \in 1..Len(input.document.define)}

\* one keyword per descendant that fills a slot
SlotArguments ==
    {SlotName(input.document.children[i].fill_slot) :
        i \in {j \in 1..Len(input.document.children) :
                  input.document.children[j].fill_slot # ""}}

\* C14: the macro is called once, with each variable in scope at the point
\* of invocation (the names defined on the invoking node included) and one
\* keyword per slot-fill descendant, each once; what it returns is written
\* as it is
C14_MacroArguments ==
    (phase = "run" /\ input.document.use_macro # NoExpr) =>
        /\ Cardinality(MacroCalls) = 1
        /\ \A k \in MacroCalls :
              LET arguments == stream.code[k].e.c
              IN  /\ {arguments[i] : i \in 1..Len(arguments)}
                        = ScopeAtInvocation \cup SlotArguments
                  /\ Len(arguments) = Cardinality(ScopeAtInvocation \cup SlotArguments)
                  /\ rt[1].status # "raised"
                  /\ rt[1].status = "done" =>
                        rt[1].bufs[1] =
                            TextOf(input.document.text)
                            \o <<"m", "(">> \o arguments \o <<")">>

\* the invoking node defines b and the call is made without it
C14_DefinedNameNotPassed ==
    /\ phase = "run" /\ rt[1].status = "done"
    /\ input.document.use_macro # NoExpr
    /\ input.document.define # <<>>
    /\ MacroCalls # {}
    /\ \A k \in MacroCalls :
          \A i \in 1..Len(stream.code[k].e.c) : stream.code[k].e.c[i] # "b"

\* on a node without definitions the call is as claimed
C14_WithoutDefine ==
    input.document.define = <<>> => C14_MacroArguments

-----------------------------------------------------------------------------
(* The output sink of the running code, capture by capture *)

\* the buffers of the captures that are open when the code is at line pc, the
\* innermost last: a capture opens with the statement that makes its stream
\* and closes with the statement that gives _out its former value
RECURSIVE SinkStack(_, _, _, _, _)
SinkStack(code, pc, i, opened, stack) ==
    IF i >= pc \/ i > Len(code) THEN stack
    ELSE IF code[i].op = "assign" /\ code[i].e.f = "initstream"
    THEN SinkStack(code, pc, i + 1, opened + 1, Append(stack, opened + 2))
    ELSE IF code[i].op = "copy" /\ code[i].x = "_out" /\ stack # <<>>
    THEN SinkStack(code, pc, i + 1, opened, SubSeq(stack, 1, Len(stack) - 1))
    ELSE SinkStack(code, pc, i + 1, opened, stack)

\* the buffer the code at line pc is to write to
SinkAt(pc) ==
    LET stack == SinkStack(stream.code, pc, 1, 0, <<>>)
    IN  IF stack = <<>> THEN 1 ELSE stack[Len(stack)]

WriteOps == {"outlit", "outwrite", "writeraw", "writeattr"}

\* C25: while a capture is active the sink is the capture's own buffer and
\* every write goes there, through _out and through _write alike; when the
\* capture group has ended the sink and the write function are the ones
\* that were in effect before it, also for captures inside a capture and
\* for several captures one after the other on one node; the output of a
\* node that uses a macro holds nothing of the elements that fill its slots
C25_CaptureIsolated ==
    (phase = "run" /\ rt[1].status \in {"running", "done"}) =>
        /\ rt[1].env["_out"] = Buf(SinkAt(rt[1].pc))
        /\ (rt[1].status = "done"
            \/ stream.code[rt[1].pc].op \in WriteOps
            \/ SinkAt(rt[1].pc) = SinkAt(rt[1].pc + 1)) =>
              rt[1].env["_write"] = BufWrite(SinkAt(rt[1].pc))
        /\ rt[1].status = "done" =>
              rt[1].env["_out"] = Buf(1) /\ rt[1].env["_write"] = BufWrite(1)
        /\ \A g \in 1..Len(stream.code) :
              (stream.code[g].op = "assign" /\ stream.code[g].e.f = "getvalue") =>
                  /\ g + 2 <= Len(stream.code)
                  /\ stream.code[g + 1].op = "copy" /\ stream.code[g + 1].x = "_write"
                  /\ stream.code[g + 2].op = "copy" /\ stream.code[g + 2].x = "_out"
                  /\ SinkAt(g) # SinkAt(g + 3)
                  /\ Len(SinkStack(stream.code, g + 3, 1, 0, <<>>))
                        = Len(SinkStack(stream.code, g, 1, 0, <<>>)) - 1
        /\ (rt[1].status = "done" /\ input.document.use_macro # NoExpr) =>
              Occurrences(rt[1].bufs[1], "b") = 0

\* a finished render of a node that uses a macro, a plain capture after a
\* capture that holds two captures of its own
C25_Witness ==
    /\ phase = "run" /\ rt[1].status = "done"
    /\ input.document.use_macro # NoExpr
    /\ input.document.children = <<FillTranslated, FillChild("y")>>
    /\ Len(rt[1].bufs) = 5
    /\ rt[1].bufs[2] = <<"<", "b", ">", "t", "<", "b", " ", "/", ">",
                         "<", "b", " ", "/", ">", "y", "<", "/", "b", ">">>
    /\ rt[1].bufs[5] = <<"<", "b", " ", "/", ">">>
    /\ rt[1].env["_out"] = Buf(1) /\ rt[1].env["_write"] = BufWrite(1)
(* Scenario: translate_etree up to the start of the generation *)

\* the metal:define-macro attribute of an element, "-" when it has none
MacroAttributes == {"-", "m", "n"}

\* the macro argument, "none" for None
MacroArguments == {"none", "m", "n", "k"}

\* no CodeIO object: a stream that exists has an outermost scope
NoStream == [NewStream EXCEPT !.scope = <<>>]

\* root.xpath('descendant-or-self::*[@metal:define-macro="%s"]' % macro):
\* the elements in document order, the root being element 1
MacroElements(tree, macro) ==
    {i \in 1..Len(tree.define_macro) : tree.define_macro[i] = macro}

EtreeRaised(tree, error) == [raised |-> error, tree |-> tree, stream |-> NoStream, root |-> 0]

\* mutant: the stream is set up and the attributes are written first
translate_etree_eager(tree, macro, params, default_expression) ==
    LET elements == MacroElements(tree, macro)
        root == IF macro # "none" /\ elements # {}
                THEN CHOOSE i \in elements : \A j \in elements : i <= j ELSE 1
        tree1 == [tree EXCEPT !.define_macro[root] = IF macro # "none" THEN "-" ELSE @,
                              !.default_expression[root] =
                                  IF @ = "" THEN default_expression ELSE @]
        result == [raised |-> "", tree |-> tree1,
                   stream |-> SeedScope(NewStream, Symbols \cup params), root |-> root]
    IN  IF ~tree.is_element
        THEN [result EXCEPT !.raised = "Must define valid namespace for tag"]
        ELSE IF macro # "none" /\ elements = {}
        THEN [result EXCEPT !.raised = "Macro not found"]
        ELSE result

\* mutant: the element of the macro keeps its define-macro attribute
translate_etree_keep(tree, macro, params, default_expression) ==
    IF ~tree.is_element THEN EtreeRaised(tree, "Must define valid namespace for tag")
    ELSE IF macro # "none" /\ MacroElements(tree, macro) = {}
    THEN EtreeRaised(tree, "Macro not found")
    ELSE
    LET elements == MacroElements(tree, macro)
        root == IF macro # "none"
                THEN CHOOSE i \in elements : \A j \in elements : i <= j ELSE 1
    IN  [raised |-> "",
         tree |-> [tree EXCEPT !.default_expression[root] =
                                   IF @ = "" THEN default_expression ELSE @],
         stream |-> SeedScope(NewStream, Symbols \cup params), root |-> root]

\* translate_etree: the root check, the macro, the default expression, the
\* stream with its outermost scope
translate_etree(tree, macro, params, default_expression) ==
    IF ~tree.is_element THEN EtreeRaised(tree, "Must define valid namespace for tag")
    ELSE IF macro # "none" /\ MacroElements(tree, macro) = {}
    THEN EtreeRaised(tree, "Macro not found")
    ELSE
    LET elements == MacroElements(tree, macro)
        root == IF macro # "none"
                THEN CHOOSE i \in elements : \A j \in elements : i <= j ELSE 1
        tree1 == IF macro # "none" THEN [tree EXCEPT !.define_macro[root] = "-"]
                 ELSE tree
        tree2 == [tree1 EXCEPT !.default_expression[root] =
                                   IF @ = "" THEN default_expression ELSE @]
    IN  [raised |-> "", tree |-> tree2,
         stream |-> SeedScope(NewStream, Symbols \cup params), root |-> root]

\* the elements of a document: the root and its descendants
Trees ==
    UNION {[is_element : BOOLEAN,
            define_macro : [1..k -> MacroAttributes],
            default_expression : [1..k -> {"", "path"}]] : k \in 1..(MaxChildren + 1)}

InitEtree ==
    /\ \E tree \in Trees, macro \in MacroArguments, params \in SUBSET {"a"} :
           input = [sc |-> "etree", tree |-> tree, document |-> tree, macro |-> macro,
                    params |-> params, raised |-> "", root |-> 0,
                    once |-> [tree |-> tree, raised |-> "", root |-> 0],
                    unicode_required_flag |-> TRUE]
    /\ stream = NoStream
    /\ phase = "begin"
    /\ rt = [r \in Renders |-> InitRt]
    /\ repeat = [x \in ProgNames |-> NoEntry]

TranslateEtreeAct ==
    /\ input.sc = "etree"
    /\ phase = "begin"
    /\ LET r == translate_etree(input.tree, input.macro, input.params, "python")
       IN  /\ input' = [input EXCEPT !.tree = r.tree, !.raised = r.raised,
                                     !.root = r.root]
           /\ stream' = r.stream
    /\ phase' = "end"
    /\ UNCHANGED <<rt, repeat>>

\* translate_etree once more, with the same arguments and the tree as the
\* first call left it; once keeps what the first call did
TranslateEtreeAgainAct ==
    /\ input.sc = "etree"
    /\ phase = "end"
    /\ LET r == translate_etree(input.tree, input.macro, input.params, "python")
       IN  /\ input' = [input EXCEPT !.once = [tree |-> input.tree,
                                               raised |-> input.raised,
                                               root |-> input.root],
                                     !.tree = r.tree, !.raised = r.raised,
                                     !.root = r.root]
           /\ stream' = r.stream
    /\ phase' = "again"
    /\ UNCHANGED <<rt, repeat>>

SpecEtree == InitEtree /\ [][TranslateEtreeAct \/ TranslateEtreeAgainAct]_vars

\* C16: translate_etree raises when the macro asked for is defined neither
\* on the root nor on a descendant, and when the root is not an element of a
\* recognized namespace; when it raises no code stream exists and the tree
\* is as it was handed in
C16_RaisesBeforeStreamAndTree ==
    phase = "end" =>
        /\ ~input.document.is_element => input.raised # ""
        /\ (input.macro # "none" /\ MacroElements(input.document, input.macro) = {})
              => input.raised # ""
        /\ input.raised # "" => stream = NoStream /\ input.tree = input.document

\* the macro k is asked for in a document that defines m on a descendant
C16_Witness ==
    /\ phase = "end"
    /\ input.document.is_element
    /\ input.macro = "k"
    /\ Len(input.document.define_macro) >= 2
    /\ input.document.define_macro[2] = "m"
    /\ input.raised = "Macro not found"
    /\ stream = NoStream

\* the define-macro attributes of the second tree are those of the first,
\* but for the element at index root, which has none
OnlyMarkerRemoved(before, after, root) ==
    /\ Len(after.define_macro) = Len(before.define_macro)
    /\ before.define_macro[root] # "-"
    /\ \A i \in 1..Len(before.define_macro) :
          after.define_macro[i] = IF i = root THEN "-" ELSE before.define_macro[i]

\* the first element in document order
First(elements) == CHOOSE i \in elements : \A j \in elements : i <= j

\* C32: a translate_etree for a macro that does not raise takes the
\* define-macro attribute from the first element in document order that
\* defines the macro and leaves the attribute of every other element as it
\* was; a second call for the same macro on the same tree raises macro not
\* found exactly when no other element defines the macro, and otherwise takes
\* the attribute from the next element that does.
C32_MarkerRemovedFromFirstOnly ==
    LET once == IF phase = "again" THEN input.once
                ELSE [tree |-> input.tree, raised |-> input.raised,
                      root |-> input.root]
        defining == MacroElements(input.document, input.macro)
    IN  (/\ input.sc = "etree" /\ phase \in {"end", "again"}
         /\ input.macro # "none" /\ once.raised = "") =>
            /\ once.root = First(defining)
            /\ OnlyMarkerRemoved(input.document, once.tree, once.root)
            /\ phase = "again" =>
                  /\ input.raised \in {"", "Macro not found"}
                  /\ input.raised = "Macro not found" <=> defining = {once.root}
                  /\ input.raised # "" => input.tree = once.tree
                  /\ input.raised = "" =>
                        /\ input.root = First(defining \ {once.root})
                        /\ OnlyMarkerRemoved(once.tree, input.tree, input.root)

\* the macro m is defined on the second of three elements only: the first call
\* takes its attribute and the second call does not find the macro
C32_Witness ==
    /\ input.sc = "etree" /\ phase = "again"
    /\ input.macro = "m"
    /\ input.document.define_macro = <<"n", "m", "-">>
    /\ input.once.raised = "" /\ input.once.root = 2
    /\ input.tree.define_macro = <<"n", "-", "-">>
    /\ input.raised = "Macro not found"

\* the macro m is defined on two elements: the second call compiles the second
C32_SecondDefinition ==
    /\ input.sc = "etree" /\ phase = "again"
    /\ input.macro = "m"
    /\ input.document.define_macro = <<"m", "-", "m">>
    /\ input.once.root = 1
    /\ input.raised = "" /\ input.root = 3
    /\ input.tree.define_macro = <<"-", "-", "-">>

-----------------------------------------------------------------------------
(* Scenario: TemplateLoader *)

Filenames == {"/t", "t"}
TemplateClasses == {"PageTemplateFile", "TextTemplateFile"}
Directories == {"d1", "d2"}

\* os.path.isabs
isabs(filename) == filename = "/t"

\* os.path.join(path, filename)
join(path, filename) == path \o "/" \o filename

FilePaths == {"/t"} \cup {join(path, "t") : path \in Directories}

\* object tells apart the templates that are constructed for one file name and
\* class: the first is 1, the next 2
NoTemplate == [klass |-> "", filename |-> "", auto_reload |-> FALSE, object |-> 0]

\* the loads of one file name and class that are followed
MaxLoads == 2

\* klass(filename, parser, **kwargs): the file is read; files[filename] is
\* "ok" or the errno of the OSError
Construct(files, klass, filename, auto_reload) ==
    IF files[filename] # "ok"
    THEN [raised |-> "OSError", errno |-> files[filename], template |-> NoTemplate]
    ELSE [raised |-> "", errno |-> "",
          template |-> [klass |-> klass, filename |-> filename,
                        auto_reload |-> auto_reload, object |-> 1]]

\* the loop of _load over the search path
RECURSIVE LoadFrom(_, _, _, _, _)
LoadFrom(loader, files, filename, klass, i) ==
    IF i > Len(loader.search_path)
    THEN [raised |-> "ValueError", errno |-> "", template |-> NoTemplate]
    ELSE Let(Construct(files, klass, join(loader.search_path[i], filename),
                       loader.auto_reload), LAMBDA r :
             IF r.raised = "" THEN r
             ELSE IF r.errno # "ENOENT" THEN r
             ELSE LoadFrom(loader, files, filename, klass, i + 1))

\* TemplateLoader._load (the decorated function); default is the value of
\* auto_reload of a template that is constructed without the keyword
_load(loader, files, filename, klass, default) ==
    IF isabs(filename) THEN Construct(files, klass, filename, default)
    ELSE LoadFrom(loader, files, filename, klass, 1)

SearchPaths == {<<>>, <<"d1">>, <<"d1", "d2">>, <<"d2", "d1">>}

\* the last operation on the loader: for a load, its arguments and whether
\* the decorated function was called
NoCall == [op |-> "", args |-> <<"", "">>, searched |-> FALSE]

InitLoader ==
    /\ \E auto_reload, default \in BOOLEAN,
          search_path \in SearchPaths,
          files \in [FilePaths -> {"ok", "ENOENT", "EACCES"}] :
           input = [sc |-> "loader",
                    loader |-> [search_path |-> search_path, auto_reload |-> auto_reload,
                                registry |-> [args \in Filenames \X TemplateClasses |->
                                                 NoTemplate]],
                    files |-> files, default |-> default,
                    loaded |-> NoTemplate, raised |-> "",
                    constructed |-> [args \in Filenames \X TemplateClasses |-> 0],
                    call |-> NoCall,
                    unicode_required_flag |-> TRUE]
    /\ stream = NewStream
    /\ phase = "begin"
    /\ rt = [r \in Renders |-> InitRt]
    /\ repeat = [x \in ProgNames |-> NoEntry]

\* the template func returns for the arguments: one more object
Constructed(r, args) ==
    IF r.raised # "" THEN r
    ELSE [r EXCEPT !.template.object = input.constructed[args] + 1]

\* mutant: the template is handed out and not kept
LoadActNoStore(filename, klass) ==
    /\ input.sc = "loader"
    /\ LET args == <<filename, klass>>
           r == Constructed(_load(input.loader, input.files, filename, klass,
                                  input.default), args)
       IN  /\ input.constructed[args] < MaxLoads
           /\ input' = [input EXCEPT
                            !.constructed[args] = IF r.raised = "" THEN @ + 1 ELSE @,
                            !.loaded = r.template, !.raised = r.raised,
                            !.call = [op |-> "load", args |-> args,
                                      searched |-> TRUE]]
    /\ UNCHANGED <<stream, phase, rt, repeat>>

\* load_page / load_text through the cache decorator
LoadAct(filename, klass) ==
    /\ input.sc = "loader"
    /\ LET args == <<filename, klass>>
           template == input.loader.registry[args]
       IN  IF template # NoTemplate
           THEN input' = [input EXCEPT !.loaded = template, !.raised = "",
                                       !.call = [op |-> "load", args |-> args,
                                                 searched |-> FALSE]]
           ELSE LET r == Constructed(_load(input.loader, input.files, filename,
                                           klass, input.default), args)
                IN  /\ input.constructed[args] < MaxLoads
                    /\ input' = [input EXCEPT
                                     !.loader.registry[args] =
                                         IF r.raised = "" THEN r.template ELSE @,
                                     !.constructed[args] =
                                         IF r.raised = "" THEN @ + 1 ELSE @,
                                     !.loaded = r.template, !.raised = r.raised,
                                     !.call = [op |-> "load", args |-> args,
                                               searched |-> TRUE]]
    /\ UNCHANGED <<stream, phase, rt, repeat>>

\* loader.search_path = path, by the owner of the loader
SetSearchPath ==
    /\ input.sc = "loader"
    /\ \E path \in SearchPaths :
           input' = [input EXCEPT !.loader.search_path = path,
                                  !.call = [NoCall EXCEPT !.op = "set"]]
    /\ UNCHANGED <<stream, phase, rt, repeat>>

load_page == \E filename \in Filenames : LoadAct(filename, "PageTemplateFile")

load_text == \E filename \in Filenames : LoadAct(filename, "TextTemplateFile")

NextLoader == load_page \/ load_text \/ SetSearchPath

SpecLoader == InitLoader /\ [][NextLoader]_vars

\* C17: a loader created with auto_reload hands out only templates that have
\* auto_reload on, whether the file name is absolute or found on the path
C17_AutoReloadEverywhere ==
    (input.loader.auto_reload /\ input.loaded # NoTemplate) => input.loaded.auto_reload

\* a template loaded by its absolute name from a loader with auto_reload: it
\* has the default of its class, here off
C17_AbsoluteWithoutAutoReload ==
    /\ input.loader.auto_reload
    /\ input.loaded # NoTemplate
    /\ isabs(input.loaded.filename)
    /\ ~input.loaded.auto_reload

\* the templates found on the search path have the loader's setting
C17_SearchPath ==
    (input.loaded # NoTemplate /\ ~isabs(input.loaded.filename))
    => input.loaded.auto_reload = input.loader.auto_reload

\* what a load of the file name finds with the search path as it is now
FoundNow(filename, klass) ==
    _load(input.loader, input.files, filename, klass, input.default)

\* one step of the loader, seen from the registry entry of one file name and
\* class
RegistryStep(args) ==
    LET before == input.loader.registry[args]
        after == input'.loader.registry[args]
        loads == input'.call.op = "load" /\ input'.call.args = args
    IN  \* at most one object, and the registry holds it from then on
        /\ input'.constructed[args] <= 1
        /\ before # NoTemplate => after = before
        /\ after # before => loads
        \* a load of a pair the registry holds
        /\ (loads /\ before # NoTemplate) =>
              /\ ~input'.call.searched
              /\ input'.raised = ""
              /\ input'.loaded = before
              /\ input'.constructed = input.constructed
        \* a load of a pair the registry does not hold
        /\ (loads /\ before = NoTemplate) =>
              /\ input'.call.searched
              /\ input'.raised # "" =>
                    after = NoTemplate /\ input'.constructed = input.constructed
              /\ input'.raised = "" =>
                    /\ after = input'.loaded /\ after # NoTemplate
                    /\ input.constructed[args] = 0

\* C31: over the loads of one loader and the changes of its search path, one
\* template at most is constructed for a file name and class; a load of a
\* pair the registry holds returns that template and does not search, whatever
\* the search path is by then; a load that raises leaves the registry as it
\* was, and the next load of the pair searches again.
C31_OneTemplatePerPair ==
    [][input.sc = "loader" =>
          \A args \in Filenames \X TemplateClasses : RegistryStep(args)]_vars

\* a template found in d1 is handed out again, without a search, after the
\* search path was changed so that a search would find the one in d2; the
\* load of the same file name as a text template had raised and stored
\* nothing
C31_Witness ==
    /\ input.sc = "loader"
    /\ input.call = [op |-> "load", args |-> <<"t", "PageTemplateFile">>,
                     searched |-> FALSE]
    /\ input.loaded.filename = join("d1", "t")
    /\ input.loaded = input.loader.registry[<<"t", "PageTemplateFile">>]
    /\ input.loader.search_path = <<"d2", "d1">>
    /\ FoundNow("t", "PageTemplateFile").raised = ""
    /\ FoundNow("t", "PageTemplateFile").template.filename = join("d2", "t")
    /\ input.constructed[<<"t", "PageTemplateFile">>] = 1
    /\ input.loader.registry[<<"t", "TextTemplateFile">>] = NoTemplate
    /\ input.constructed[<<"t", "TextTemplateFile">>] = 0

-----------------------------------------------------------------------------
(* Scenario: the visit of a node whose children define names and use macros *)

\* a child with a tal:define of the name
DefiningChild(name) ==
    [Br(PyNone) EXCEPT !.define = <<[declaration |-> <<name>>,
                                     expression |-> Value("const", Obj(<<"d", name>>), 84)]>>]

\* a child that uses a macro
MacroChild ==
    [Br(PyNone) EXCEPT !.use_macro = Value("const", Obj(<<"m">>), 85),
                       !.omit = [k |-> "always", e |-> ValueNone]]

InitSiblings ==
    /\ \E k \in 0..MaxChildren, params \in SUBSET {"a"} :
        \E children \in [1..k -> {Br(PyNone), DefiningChild("b"), DefiningChild("c"),
                                  MacroChild}] :
           LET n == WithDirectives(
                        [tag |-> [ns |-> "{ns}", local |-> "div"], text |-> PyNone,
                         tail |-> PyNone, content |-> NoExpr, translate |-> "none",
                         catalog |-> Marker, omit |-> [k |-> "no", e |-> ValueNone],
                         children |-> children], NoDirectives)
           IN  input = [sc |-> "node", node |-> n, document |-> n, visited |-> 0,
                        omitval |-> TRUE, params |-> params,
                        unicode_required_flag |-> TRUE]
    /\ stream = SeedScope(NewStream, Symbols \cup input.params)
    /\ phase = "begin"
    /\ rt = [r \in Renders |->
                [InitRt EXCEPT !.env["a"] = IF "a" \in input.params
                                            THEN Obj(<<"p", "a">>) ELSE Unbound]]
    /\ repeat = [x \in ProgNames |-> NoEntry]

SpecSiblings == InitSiblings /\ [][NextNode]_vars

\* the scope stack translate_etree starts the root with
OutermostScope == <<{}, Symbols \cup input.params>>

\* C19: a visit pushes one scope frame and pops one: during the visit of the
\* root, before and after the visit of each child, the stack is the
\* outermost scope and the frame of the root; after the whole translation it
\* is the outermost scope; a name a child defines is in no frame when a
\* following sibling is translated, so no sibling's macro call passes it
C19_ScopeFramesBalanced ==
    /\ phase \in {"body", "visit", "end"} => stream.scope = Append(OutermostScope, {})
    /\ phase = "run" => stream.scope = OutermostScope
    /\ \A k \in MacroCalls :
          \A i \in 1..Len(stream.code[k].e.c) :
              stream.code[k].e.c[i] \in Symbols \cup input.params

\* a child that defines b has been visited and the macro of its following
\* sibling is called without b
C19_Witness ==
    /\ phase = "run" /\ rt[1].status = "done"
    /\ Len(input.document.children) >= 2
    /\ input.document.children[1] = DefiningChild("b")
    /\ input.document.children[2] = MacroChild
    /\ MacroCalls # {}
    /\ rt[1].env["b"].t = "unbound"

-----------------------------------------------------------------------------
(* Scenario: a Condition with code emitted between its begin and its end *)

\* the guard: the name c, alone or as the fallback of an expression that raises
Guards ==
    {Value("name", "c", 86),
     Parts(<<Value("raise", "Exception", 87), Value("name", "c", 86)>>)}

\* the three uses of the doctest: unlimited scope, finalized limited scope,
\* open limited scope
ConditionOf(kind, guard) ==
    CASE kind = "unlimited" -> ConditionClause(guard, <<>>, TRUE)
      [] kind = "finalized" ->
            ConditionClause(guard, <<WriteClause(Value("const", Str(<<"H">>), 61))>>, TRUE)
      [] kind = "open" ->
            ConditionClause(guard, <<TagClause([ns |-> "{ns}", local |-> "div"],
                                               <<>>, FALSE)>>, FALSE)
      [] kind = "several" ->
            ConditionClause(guard, <<TagClause([ns |-> "{ns}", local |-> "div"],
                                               <<>>, FALSE),
                                     TagClause([ns |-> "{ns}", local |-> "span"],
                                               <<>>, FALSE)>>, FALSE)
      [] kind = "finalized several" ->
            ConditionClause(guard, <<WriteClause(Value("const", Str(<<"H">>), 61)),
                                     TagClause([ns |-> "{ns}", local |-> "span"],
                                               <<>>, FALSE)>>, TRUE)

\* what is emitted between begin and end: a literal, a Write that needs a
\* temporary, an assignment that changes the truth of c, another Condition
Between == {"out", "write", "rebind", "cond"}

BetweenClause(op) ==
    CASE op = "write" ->
            WriteClause(Parts(<<Value("raise", "Exception", 62),
                                Value("const", Str(<<"w">>), 63)>>))
      [] op = "rebind" ->
            AssignClause(Value("not", "c", 64), <<"c">>)
      [] op = "cond" ->
            ConditionClause(Value("name", "d", 88),
                            <<WriteClause(Value("const", Str(<<"n">>), 89))>>, TRUE)

InitCondition ==
    /\ input \in [sc : {"condition"},
                  kind : {"unlimited", "finalized", "open", "several",
                          "finalized several"},
                  guard : Guards,
                  c : {Bool(TRUE), Bool(FALSE), None},
                  between : {<<>>} \cup SeqsUpTo(Between, MaxParts),
                  emitted : {0},
                  unicode_required_flag : {TRUE}]
    /\ stream = NewStream
    /\ phase = "begin"
    /\ rt = [r \in Renders |-> [InitRt EXCEPT !.env["c"] = input.c,
                                              !.env["d"] = Bool(TRUE)]]
    /\ repeat = [x \in ProgNames |-> NoEntry]

ConditionBeginAct ==
    /\ input.sc = "condition"
    /\ phase = "begin"
    /\ stream' = ConditionBegin(stream, ConditionOf(input.kind, input.guard),
                                input.unicode_required_flag)
    /\ phase' = "body"
    /\ UNCHANGED <<input, rt, repeat>>

\* one piece of code between begin and end
ConditionBetweenAct ==
    /\ input.sc = "condition"
    /\ phase = "body"
    /\ input.emitted < Len(input.between)
    /\ LET op == input.between[input.emitted + 1]
       IN  stream' = IF op = "out" THEN out(stream, <<"h">>)
                     ELSE ClauseEnd(ClauseBegin(stream, BetweenClause(op),
                                                input.unicode_required_flag),
                                    BetweenClause(op))
    /\ input' = [input EXCEPT !.emitted = @ + 1]
    /\ UNCHANGED <<phase, rt, repeat>>

ConditionEndAct ==
    /\ input.sc = "condition"
    /\ phase = "body"
    /\ input.emitted = Len(input.between)
    /\ stream' = getvalue(ConditionEnd(stream, ConditionOf(input.kind, input.guard)))
    /\ phase' = "run"
    /\ rt' = Launch({1}, stream'.code)
    /\ UNCHANGED <<input, repeat>>

NextCondition == ConditionBeginAct \/ ConditionBetweenAct \/ ConditionEndAct \/ Exec(1)

SpecCondition == InitCondition /\ [][NextCondition]_vars

\* what the code between begin and end writes when it runs
RECURSIVE BetweenOutput(_, _)
BetweenOutput(between, i) ==
    IF i > Len(between) THEN <<>>
    ELSE (CASE between[i] = "out" -> <<"h">>
            [] between[i] = "write" -> <<"w">>
            [] between[i] = "rebind" -> <<>>
            [] between[i] = "cond" -> <<"n">>)
         \o BetweenOutput(between, i + 1)

\* how often the expression with the id was evaluated
Evaluations(st, id) == Cardinality({k \in 1..Len(st.evals) : st.evals[k] = id})

\* C20: the guard is evaluated once per execution, into a temporary; with
\* finalize off the end code of the guarded clauses runs exactly when their
\* begin code ran, whatever was emitted between begin and end: the close tag
\* is written iff the open tag was, also when the code between changes the
\* truth of the guard's expression or uses temporaries of its own
C20_GuardOnceBeginIffEnd ==
    (phase = "run" /\ rt[1].status = "done") =>
        LET guarded == Truthy(input.c, <<>>)
            body == BetweenOutput(input.between, 1)
        IN  /\ Evaluations(rt[1], 86) = 1
            /\ rt[1].bufs[1] =
                  CASE input.kind = "unlimited" -> IF guarded THEN body ELSE <<>>
                    [] input.kind = "finalized" ->
                          (IF guarded THEN <<"H">> ELSE <<>>) \o body
                    [] input.kind = "open" ->
                          IF guarded
                          THEN <<"<", "div", ">">> \o body \o <<"<", "/", "div", ">">>
                          ELSE body
                    [] input.kind = "several" ->
                          IF guarded
                          THEN <<"<", "div", ">", "<", "span", ">">> \o body
                               \o <<"<", "/", "span", ">", "<", "/", "div", ">">>
                          ELSE body
                    [] input.kind = "finalized several" ->
                          (IF guarded
                           THEN <<"H", "<", "span", ">", "<", "/", "span", ">">>
                           ELSE <<>>) \o body

\* an open Condition whose guard is true, with a Write and an assignment that
\* makes c false between begin and end: the tag is closed
C20_Witness ==
    /\ phase = "run" /\ rt[1].status = "done"
    /\ input.kind = "open" /\ input.c = Bool(TRUE)
    /\ input.between = <<"write", "rebind">>
    /\ rt[1].env["c"] = Bool(FALSE)
    /\ rt[1].bufs[1] = <<"<", "div", ">", "w", "<", "/", "div", ">">>

\* with one guarded clause, or with finalize on, C20 holds
C20_OneClause ==
    input.kind # "several" => C20_GuardOnceBeginIffEnd

\* two guarded tags with finalize off and a false guard: no tag was opened
\* and the first one is closed
C20_ClosedWithoutOpen ==
    /\ phase = "run" /\ rt[1].status = "done"
    /\ input.kind = "several" /\ ~Truthy(input.c, <<>>)
    /\ input.between = <<>>
    /\ rt[1].bufs[1] = <<"<", "/", "div", ">">>

\* C21: for every clause list (none, one, several) and both values of
\* finalize, Condition.begin, a balanced emission and Condition.end leave the
\* indentation and the depth of the temporaries as they were before begin
C21_ConditionBalanced ==
    phase = "run" => stream.indentation = 0 /\ stream.t_counter = 0

\* two guarded clauses with finalize off: the end leaves the indentation one
\* level lower than begin found it
C21_IndentationLost ==
    /\ phase = "run"
    /\ input.kind = "several"
    /\ stream.indentation = 0 - 1
    /\ stream.t_counter = 0

\* with at most one guarded clause, or with finalize on, C21 holds
C21_OneClause ==
    input.kind # "several" => C21_ConditionBalanced

-----------------------------------------------------------------------------
(* Scenario: the attributes Node.serialize hands to the tag *)

AttributeNames == {"title", "alt"}

\* values of the compiler: an attribute name, and a (variables, expression) pair
PyName(name) == [t |-> "str", v |-> name]
PyPair(variables, expression) == [t |-> "tuple", v |-> <<variables, expression>>]

\* ==: values of different types are not equal
PyEq(x, y) == x.t = y.t /\ x.v = y.v

\* x in tuple
PyIn(x, tuple) == \E i \in 1..Len(tuple) : PyEq(x, tuple[i])

StaticAttribute == [k |-> "static", v |-> "s"]

\* _translate(value, default=default) for an attribute
TranslateAttribute(msgid, default) == [k |-> "translate", msgid |-> msgid, default |-> default]

Raised(error) == [raised |-> error, attributes |-> [name \in AttributeNames |-> NoExpr]]

\* for variables, expression in attrs: attributes[variable] = expression
RECURSIVE AssignDynamic(_, _, _)
AssignDynamic(attributes, attrs, i) ==
    IF i > Len(attrs) THEN [raised |-> "", attributes |-> attributes]
    ELSE IF Len(attrs[i].v[1]) # 1
    THEN Raised("Tuple definitions in assignment clause is not supported.")
    ELSE AssignDynamic([attributes EXCEPT ![attrs[i].v[1][1]] = attrs[i].v[2]], attrs, i + 1)

\* for variable, msgid in translated_attributes: attributes[variable] = expression
RECURSIVE AssignTranslated(_, _, _, _)
AssignTranslated(attributes, dynamic_attributes, translated_attributes, i) ==
    IF i > Len(translated_attributes) THEN [raised |-> "", attributes |-> attributes]
    ELSE
    LET variable == translated_attributes[i].variable
        msgid == translated_attributes[i].msgid
    IN  IF msgid # ""
        THEN IF PyIn(PyName(variable), dynamic_attributes)
             THEN Raised("Message id not allowed in conjunction with a dynamic attribute.")
             ELSE AssignTranslated(
                      [attributes EXCEPT ![variable] =
                          TranslateAttribute(msgid, attributes[variable])],
                      dynamic_attributes, translated_attributes, i + 1)
        ELSE IF PyIn(PyName(variable), dynamic_attributes) \/ attributes[variable] # NoExpr
             THEN AssignTranslated(
                      [attributes EXCEPT ![variable] =
                          TranslateAttribute("", attributes[variable])],
                      dynamic_attributes, translated_attributes, i + 1)
             ELSE Raised("Must be either static or dynamic attribute when no message id is supplied.")

\* Node.serialize, the attributes of the tag
SerializeAttributes(n) ==
    Let(AssignDynamic(n.static_attributes, n.dynamic_attributes, 1), LAMBDA r :
        IF r.raised # "" THEN r
        ELSE AssignTranslated(r.attributes, n.dynamic_attributes,
                              n.translated_attributes, 1))

NotSerialized == Raised("not serialized")

InitAttributes ==
    /\ input \in
         [sc : {"attributes"},
          static_attributes : [AttributeNames -> {NoExpr, StaticAttribute}],
          dynamic_attributes :
              SeqsUpTo({PyPair(variables, Value("name", "a", 81)) :
                           variables \in {<<"title">>, <<"alt">>, <<"title", "alt">>}},
                       MaxAttrs),
          translated_attributes :
              SeqsUpTo([variable : AttributeNames, msgid : {"", "m"}], MaxAttrs),
          serialized : {NotSerialized}]
    /\ stream = NewStream
    /\ phase = "begin"
    /\ rt = [r \in Renders |-> InitRt]
    /\ repeat = [x \in ProgNames |-> NoEntry]

\* self.serialize() up to the tag
SerializeAct ==
    /\ input.sc = "attributes" /\ phase = "begin"
    /\ input' = [input EXCEPT !.serialized = SerializeAttributes(input)]
    /\ phase' = "end"
    /\ UNCHANGED <<stream, rt, repeat>>

SpecAttributes == InitAttributes /\ [][SerializeAct]_vars

\* the names the dynamic attributes of the input assign
DynamicNames ==
    {input.dynamic_attributes[i].v[1][k] :
        i \in 1..Len(input.dynamic_attributes), k \in {1}}

\* C12: serialize raises whenever a translated attribute has a message id and
\* a dynamic attribute assigns the same attribute name
C12_MsgidWithDynamicRaises ==
    (/\ phase = "end"
     /\ \E i \in 1..Len(input.translated_attributes) :
           /\ input.translated_attributes[i].msgid # ""
           /\ input.translated_attributes[i].variable \in DynamicNames)
    => input.serialized.raised # ""

\* a dynamic title and a message id for title: serialize returns the attributes
C12_Accepted ==
    /\ phase = "end"
    /\ input.dynamic_attributes = <<PyPair(<<"title">>, Value("name", "a", 81))>>
    /\ input.translated_attributes = <<[variable |-> "title", msgid |-> "m"]>>
    /\ input.serialized.raised = ""
    /\ input.serialized.attributes["title"] =
           TranslateAttribute("m", Value("name", "a", 81))

-----------------------------------------------------------------------------
(* All scenarios together: every clause and the node visit *)

InitAll ==
    \/ InitAssign
    \/ InitDefine
    \/ InitRepeat
    \/ InitTag
    \/ InitWrite
    \/ InitNode

NextAll ==
    \/ AssignBeginAct \/ AssignEndAct
    \/ NodeBeginAct \/ NodeEndAct
    \/ RepeatNodeBegin \/ RepeatNodeEnd
    \/ TagBeginAct \/ TagEndAct
    \/ WriteBeginAct \/ WriteEndAct
    \/ VisitBegin \/ VisitBody \/ VisitChild \/ VisitEnd
    \/ Exec(1)

SpecAll == InitAll /\ [][NextAll]_vars

-----------------------------------------------------------------------------
(* Claims about errors at render time *)

\* the statement at line pc evaluates a candidate directly inside a guard
GuardedCandidate(code, pc) ==
    /\ code[pc].op \in {"assign", "format"}
    /\ Header(code, pc) # 0
    /\ code[Header(code, pc)].op = "try"

\* the lines of the code that evaluate candidate i
CandidateLines(code, i) ==
    {pc \in 1..Len(code) : code[pc].op = "assign" /\ code[pc].e.id = i}

\* C2: an error is absorbed only at a candidate that Assign has put inside a
\* guard, whatever clause is being rendered; for a Parts list of n
\* candidates, the guarded ones are never the last, an evaluation error of
\* a candidate before the last does not end the render, and an error of the
\* last candidate ends it with that error.
C2_OnlyFallbackAbsorbs ==
    LET st == rt[1]
        code == stream.code
    IN  /\ \A k \in 1..Len(st.caught) : GuardedCandidate(code, st.caught[k])
        /\ input.sc \in {"define", "repeat"} => st.caught = <<>>
        /\ (input.sc = "assign" /\ phase = "run") =>
              LET n == Len(input.outcomes)
                  m == Len(st.evals)
              IN  /\ \A pc \in CandidateLines(code, n) :
                        HandlerOf(code, pc, "Exception") = 0
                  /\ \A k \in 1..Len(st.caught) : code[st.caught[k]].e.id < n
                  /\ st.status = "raised" =>
                        /\ m >= 1 /\ CandRaises(m) /\ st.err = CandClass(m)
                        /\ m = n \/ CandClass(m) = "BaseException"
                  /\ (m = n /\ CandRaises(n)) =>
                        st.status = "raised" /\ st.err = CandClass(n)

\* two candidates failed and were passed over, the error of the third and
\* last one ended the render
C2_Witness ==
    /\ input.sc = "assign" /\ phase = "run"
    /\ input.outcomes = <<"Exception", "name", "Exception">>
    /\ Len(rt[1].caught) = 2
    /\ rt[1].evals = <<1, 2, 3>>
    /\ rt[1].status = "raised"

-----------------------------------------------------------------------------
(* translation.VariableInterpolation: update on text, tail and attributes *)

MaxLen == 4       \* characters in a text, a tail or an attribute value

\* the expressions a marker can carry, each with its braces as one character
Exprs == {"{a}", "{b}"}

\* the characters of a text: a literal, the dollar, the expressions, the
\* backslash
Chars == {".", "$", "\\"} \cup Exprs

\* s[a:b]
Slice(s, a, b) ==
    IF a >= b \/ a >= Len(s) THEN <<>>
    ELSE SubSeq(s, a + 1, IF b > Len(s) THEN Len(s) ELSE b)

NoMatch == [start |-> 0 - 1, end |-> 0 - 1, prefix |-> 0, expression |-> ""]

\* "[^\\]\$" then an expression, from offset i
PrefixedAt(s, i) ==
    /\ i + 3 <= Len(s)
    /\ s[i + 1] # "\\" /\ s[i + 2] = "$" /\ s[i + 3] \in Exprs

\* "^\$" then an expression
LeadingAt(s) == Len(s) >= 2 /\ s[1] = "$" /\ s[2] \in Exprs

\* translator.interpolate: the leftmost match; prefix is the length of the
\* group of that name, the dollar with the character before it
interpolate(s) ==
    LET starts == {i \in 0..(Len(s) - 1) : PrefixedAt(s, i)}
                  \cup (IF LeadingAt(s) THEN {0} ELSE {})
    IN  IF starts = {} THEN NoMatch
        ELSE LET i == CHOOSE x \in starts : \A y \in starts : x <= y
             IN  IF PrefixedAt(s, i)
                 THEN [start |-> i, end |-> i + 3, prefix |-> 2,
                       expression |-> s[i + 3]]
                 ELSE [start |-> 0, end |-> 2, prefix |-> 1, expression |-> s[2]]

\* an element of the tree; replace is the expression of meta:replace,
\* attributes the entries of meta:attributes, diverged tells that a loop of
\* update was cut off
Elem(tag, text, tail, children, attrib) ==
    [tag |-> tag, text |-> text, tail |-> tail, children |-> children,
     attrib |-> attrib, attributes |-> <<>>, replace |-> "", diverged |-> FALSE]

\* "t = self.makeelement(utils.meta_attr('interpolation'))" with its
\* replace attribute and its tail
makeelement(expression, tail) ==
    [Elem("interpolation", PyNone, PyStr(tail), <<>>, <<>>)
        EXCEPT !.replace = "structure " \o expression]

\* the loops of update are followed for as many insertions as a text of
\* twice the longest length could ask for
MaxInserted == 2 * MaxLen + 4

\* mutant: the new element becomes the last one
InsertAtEnd(children, i, t) == Append(children, t)

\* list.insert(i, t)
InsertAt(children, i, t) ==
    SubSeq(children, 1, i) \o <<t>> \o SubSeq(children, i + 1, Len(children))

RECURSIVE update(_, _), update_text(_), update_tail(_, _)

\* mutant: the text keeps everything up to the end of the match
update_text_keep(e) ==
    IF ~e.text.some \/ e.text.s = <<>> THEN e
    ELSE Let(interpolate(e.text.s), LAMBDA m :
         IF m = NoMatch THEN e
         ELSE IF Len(e.children) >= MaxInserted THEN [e EXCEPT !.diverged = TRUE]
         ELSE Let(update([e EXCEPT !.children =
                             InsertAt(@, 0, makeelement(m.expression,
                                                        Slice(e.text.s, m.end,
                                                              Len(e.text.s))))],
                         1), LAMBDA e1 :
              update_text([e1 EXCEPT !.text = PyStr(Slice(e.text.s, 0, m.end))])))

\* "if self.text is not None: while self.text: ..."
update_text(e) ==
    IF ~e.text.some \/ e.text.s = <<>> THEN e
    ELSE Let(interpolate(e.text.s), LAMBDA m :
         IF m = NoMatch THEN e
         ELSE IF Len(e.children) >= MaxInserted THEN [e EXCEPT !.diverged = TRUE]
         ELSE Let(update([e EXCEPT !.children =
                             InsertAt(@, 0, makeelement(m.expression,
                                                        Slice(e.text.s, m.end,
                                                              Len(e.text.s))))],
                         1), LAMBDA e1 :
              update_text([e1 EXCEPT !.text =
                              PyStr(IF m.start = 0
                                    THEN Slice(e.text.s, 2 - m.prefix, m.start + 1)
                                    ELSE Slice(e.text.s, 0, m.start + 1))])))

\* "if self.tail is not None: while self.tail: ..." for child i of parent
update_tail(parent, i) ==
    LET self == parent.children[i]
    IN  IF ~self.tail.some \/ self.tail.s = <<>> THEN parent
        ELSE Let(interpolate(self.tail.s), LAMBDA m :
             IF m = NoMatch THEN parent
             ELSE IF Len(parent.children) >= MaxInserted
             THEN [parent EXCEPT !.diverged = TRUE]
             ELSE Let(update([parent EXCEPT !.children =
                                 InsertAt(@, i, makeelement(m.expression,
                                                            Slice(self.tail.s, m.end,
                                                                  Len(self.tail.s))))],
                             i + 1), LAMBDA p1 :
                  update_tail([p1 EXCEPT !.children[i].tail =
                                  PyStr(Slice(self.tail.s, 0,
                                              m.start + m.prefix - 1))], i)))

\* the loop over the attributes of the element's namespace: an attribute
\* with a marker is deleted and appended to meta:attributes
RECURSIVE update_attributes(_, _, _)

\* mutant: the attribute is registered and stays a static attribute
update_attributes_keep(e, names, k) ==
    IF k > Len(names) THEN e
    ELSE LET j == CHOOSE j \in 1..Len(e.attrib) : e.attrib[j].name = names[k]
             value == e.attrib[j].value
         IN  IF interpolate(value) # NoMatch
             THEN update_attributes(
                      [e EXCEPT !.attributes =
                                    Append(@, [name |-> names[k], value |-> value])],
                      names, k + 1)
             ELSE update_attributes(e, names, k + 1)

update_attributes(e, names, k) ==
    IF k > Len(names) THEN e
    ELSE LET j == CHOOSE j \in 1..Len(e.attrib) : e.attrib[j].name = names[k]
             value == e.attrib[j].value
         IN  IF interpolate(value) # NoMatch
             THEN update_attributes(
                      [e EXCEPT !.attrib = SubSeq(@, 1, j - 1)
                                           \o SubSeq(@, j + 1, Len(@)),
                                !.attributes =
                                    Append(@, [name |-> names[k], value |-> value])],
                      names, k + 1)
             ELSE update_attributes(e, names, k + 1)

\* VariableInterpolation.update of child i of parent
update(parent, i) ==
    Let([parent EXCEPT !.children[i] = update_text(@)], LAMBDA p1 :
    Let(update_tail(p1, i), LAMBDA p2 :
        [p2 EXCEPT !.children[i] =
            update_attributes(@, [k \in 1..Len(@.attrib) |-> @.attrib[k].name], 1)]))

-----------------------------------------------------------------------------
(* Scenario: an element between its parent and a following sibling, updated
   once and then again *)

StringsUpTo(n) == UNION {[1..k -> Chars] : k \in 1..n}

\* the texts of the half of the scenario that does not vary
FewStrings == {<<"$", "{a}">>, <<".", "$", "{b}", ".">>}

Leaf(tag) == Elem(tag, PyNone, PyNone, <<>>, <<>>)

InitUpdate ==
    /\ LET all == {PyNone} \cup {PyStr(s) : s \in StringsUpTo(MaxLen)}
           few == {PyNone} \cup {PyStr(s) : s \in FewStrings}
       IN  \E tt \in (all \X few) \cup (few \X all),
              kids \in {<<>>, <<Leaf("br")>>},
              attrib \in {<<>>, <<[name |-> "alt", value |-> <<".">>]>>,
                          <<[name |-> "alt", value |-> <<".">>],
                            [name |-> "id", value |-> <<".", "$", "{a}">>]>>} :
               /\ kids = <<>> \/ tt[2] \in few
               /\ attrib = <<>> \/ (tt[1] \in few /\ tt[2] \in few)
               /\ LET P == Elem("p", PyNone, PyNone,
                                <<Elem("div", tt[1], tt[2], kids, attrib),
                                  Leaf("hr")>>, <<>>)
                  IN  input = [sc |-> "update", document |-> P, node |-> P,
                               once |-> P, again |-> <<>>,
                               unicode_required_flag |-> TRUE]
    /\ stream = NewStream
    /\ phase = "parsed"
    /\ rt = [r \in Renders |-> InitRt]
    /\ repeat = [x \in ProgNames |-> NoEntry]

\* the first update of the element
UpdateAct ==
    /\ input.sc = "update"
    /\ phase = "parsed"
    /\ input' = [input EXCEPT !.node = update(@, 1), !.once = update(input.node, 1)]
    /\ phase' = "updated"
    /\ UNCHANGED <<stream, rt, repeat>>

\* Node.body and Node.visit update again: the element or a node it inserted
\* after itself
UpdateAgainAct ==
    /\ input.sc = "update"
    /\ phase = "updated"
    /\ \E k \in 1..(Len(input.node.children) - 1) :
           input' = [input EXCEPT !.node = update(@, k), !.again = <<k>>]
    /\ phase' = "again"
    /\ UNCHANGED <<stream, rt, repeat>>

\* the same for a node the element inserted under itself
UpdateChildAgainAct ==
    /\ input.sc = "update"
    /\ phase = "updated"
    /\ \E k \in 1..Len(input.node.children[1].children) :
           input' = [input EXCEPT !.node.children[1] = update(@, k),
                                  !.again = <<1, k>>]
    /\ phase' = "again"
    /\ UNCHANGED <<stream, rt, repeat>>

NextUpdate == UpdateAct \/ UpdateAgainAct \/ UpdateChildAgainAct

SpecUpdate == InitUpdate /\ [][NextUpdate]_vars

-----------------------------------------------------------------------------
(* Claims about the interpolation *)

\* a dollar that is followed by an expression and not preceded by a backslash
MarkerAt(s, i) ==
    /\ i + 1 <= Len(s)
    /\ s[i] = "$" /\ s[i + 1] \in Exprs
    /\ i > 1 => s[i - 1] # "\\"

HasMarker(text) == text.some /\ \E i \in 1..Len(text.s) : MarkerAt(text.s, i)

RECURSIVE AnyDiverged(_)
AnyDiverged(e) ==
    e.diverged \/ \E k \in 1..Len(e.children) : AnyDiverged(e.children[k])

\* every element of the tree
RECURSIVE Elements(_)
Elements(e) == {e} \cup UNION {Elements(e.children[k]) : k \in 1..Len(e.children)}

\* C26: update comes to an end for every text, tail and attribute content,
\* and then no element of the tree has a marker left in its text, its tail
\* or the value of a static attribute
C26_UpdateTerminatesClean ==
    phase # "parsed" =>
        /\ ~AnyDiverged(input.node)
        /\ \A e \in Elements(input.node) :
              /\ ~HasMarker(e.text) /\ ~HasMarker(e.tail)
              /\ \A j \in 1..Len(e.attrib) : ~HasMarker(PyStr(e.attrib[j].value))

\* a text and a tail with a marker each and an attribute with one
C26_Witness ==
    /\ phase = "updated"
    /\ HasMarker(input.document.children[1].text)
    /\ HasMarker(input.document.children[1].tail)
    /\ Len(input.document.children[1].tail.s) = MaxLen
    /\ \E j \in 1..Len(input.document.children[1].attrib) :
          HasMarker(PyStr(input.document.children[1].attrib[j].value))
    /\ Len(input.node.children) > Len(input.document.children)

\* the run of a text as the document has it: the characters, and one node
\* for each marker in the place of the marker
RECURSIVE Run(_)
Run(s) ==
    IF \A i \in 1..Len(s) : ~MarkerAt(s, i) THEN s
    ELSE LET i == CHOOSE x \in 1..Len(s) :
                      MarkerAt(s, x) /\ \A y \in 1..(x - 1) : ~MarkerAt(s, y)
         IN  SubSeq(s, 1, i - 1) \o <<[replace |-> "structure " \o s[i + 1]]>>
             \o Run(SubSeq(s, i + 2, Len(s)))

\* the run of the elements k.. of a list: each inserted node, then its tail
RECURSIVE Inserted(_, _, _)
Inserted(children, k, n) ==
    IF k > n THEN <<>>
    ELSE <<[replace |-> children[k].replace]>> \o TextOf(children[k].tail)
         \o Inserted(children, k + 1, n)

\* C27: the text of the element and the nodes inserted for it, each with
\* its tail, are the run of the original text, one node per marker with the
\* marker's expression, and they come before the children the element had;
\* the tail of the element and the nodes inserted for it are the run of the
\* original tail and come directly after the element
C27_OrderPreserved ==
    phase # "parsed" =>
        LET before == input.document.children[1]
            after == input.once.children[1]
            n == Len(after.children) - Len(before.children)
            m == Len(input.once.children) - Len(input.document.children)
        IN  /\ n >= 0 /\ m >= 0
            /\ TextOf(after.text) \o Inserted(after.children, 1, n)
                  = Run(TextOf(before.text))
            /\ SubSeq(after.children, n + 1, Len(after.children)) = before.children
            /\ TextOf(after.tail) \o Inserted(input.once.children, 2, m + 1)
                  = Run(TextOf(before.tail))
            /\ input.once.children[m + 2] = input.document.children[2]
            /\ \A k \in 1..n : after.children[k].tag = "interpolation"
            /\ \A k \in 2..(m + 1) : input.once.children[k].tag = "interpolation"

\* two markers in the text of an element that has a child
C27_Witness ==
    /\ phase = "updated"
    /\ input.document.children[1].text = PyStr(<<"$", "{a}", "$", "{b}">>)
    /\ input.document.children[1].children # <<>>
    /\ Len(input.node.children[1].children) = 3
    /\ input.node.children[1].children[1].replace = "structure {a}"
    /\ input.node.children[1].children[2].replace = "structure {b}"
    /\ input.node.children[1].children[3].tag = "br"

\* C28: a second update of the element, or of a node the first one
\* inserted, leaves the tree as the first update left it: no node more, no
\* text or tail changed, no dynamic attribute added; an attribute whose
\* value holds a marker is registered once
C28_UpdateIdempotent ==
    phase = "again" =>
        /\ input.node = input.once
        /\ \A j \in 1..Len(input.document.children[1].attrib) :
              LET a == input.document.children[1].attrib[j]
              IN  HasMarker(PyStr(a.value)) =>
                      Cardinality({k \in 1..Len(input.node.children[1].attributes) :
                                      input.node.children[1].attributes[k].name = a.name})
                          = 1

\* the second update of an element that got nodes from its text and its
\* tail and a dynamic attribute
C28_Witness ==
    /\ phase = "again"
    /\ Len(input.node.children) > Len(input.document.children)
    /\ Len(input.node.children[1].children)
          > Len(input.document.children[1].children)
    /\ input.node.children[1].attributes # <<>>

-----------------------------------------------------------------------------
(* Scenario: the attributes of a node, assembled by serialize and written by
   its Tag *)

\* mutant: an assignment always adds an item
SetItemAppend(attributes, name, value) ==
    Append(attributes, [name |-> name, value |-> value])

\* attributes[name] = value, on the items of the mapping in the order the
\* mapping yields them: a name it holds keeps its place
SetItem(attributes, name, value) ==
    IF \E i \in 1..Len(attributes) : attributes[i].name = name
    THEN [i \in 1..Len(attributes) |->
             IF attributes[i].name = name
             THEN [name |-> name, value |-> value]
             ELSE attributes[i]]
    ELSE Append(attributes, [name |-> name, value |-> value])

\* Node.serialize: the static attributes, then each dynamic attribute assigned
\* under its name; a declaration of several names is refused
RECURSIVE AssembleAttributes(_, _, _)
AssembleAttributes(attributes, attrs, i) ==
    IF i > Len(attrs) THEN [raised |-> "", attributes |-> attributes]
    ELSE IF Len(attrs[i].variables) # 1
    THEN [raised |-> "Tuple definitions in assignment clause is not supported.",
          attributes |-> <<>>]
    ELSE AssembleAttributes(
             SetItem(attributes, attrs[i].variables[1],
                     Value("const", attrs[i].v, i)),
             attrs, i + 1)

\* what a dynamic attribute's expression evaluates to
AssembledValues == {None, Str(<<"a", "\"">>), Obj(<<"7">>)}

\* the static attributes of an element, in source order: no name twice
StaticItems ==
    {<<>>} \cup
    {s \in SeqsUpTo([name : AttributeNames, value : StaticValues], MaxAttrs) :
        \A i, j \in 1..Len(s) : s[i].name = s[j].name => i = j}

InitAssembly ==
    /\ input \in
         [sc : {"assembly"},
          tag : {[ns |-> "", local |-> "div"]},
          static_attributes : StaticItems,
          dynamic_attributes :
              {<<>>} \cup
              SeqsUpTo([variables : {<<name>> : name \in AttributeNames},
                        v : AssembledValues], MaxAttrs),
          assembled : {[raised |-> "not serialized", attributes |-> <<>>]},
          selfclosing : BOOLEAN,
          unicode_required_flag : {FALSE}]
    /\ stream = NewStream
    /\ phase = "begin"
    /\ rt = [r \in Renders |-> InitRt]
    /\ repeat = [x \in ProgNames |-> NoEntry]

\* self.serialize(): the attributes the Tag is built with
AssembleAct ==
    /\ input.sc = "assembly" /\ phase = "begin"
    /\ input' = [input EXCEPT !.assembled =
                    AssembleAttributes(input.static_attributes,
                                       input.dynamic_attributes, 1)]
    /\ phase' = "tag"
    /\ UNCHANGED <<stream, rt, repeat>>

\* the begin of the Tag
AssembledBeginAct ==
    /\ input.sc = "assembly" /\ phase = "tag"
    /\ input.assembled.raised = ""
    /\ stream' = TagBegin(stream, input.tag, input.assembled.attributes,
                          input.selfclosing, input.unicode_required_flag)
    /\ phase' = "end"
    /\ UNCHANGED <<input, rt, repeat>>

\* the end of the Tag; the code is then run
AssembledEndAct ==
    /\ input.sc = "assembly" /\ phase = "end"
    /\ stream' = getvalue(TagEnd(stream, input.tag, input.selfclosing))
    /\ phase' = "run"
    /\ rt' = Launch({1}, stream'.code)
    /\ UNCHANGED <<input, repeat>>

NextAssembly == AssembleAct \/ AssembledBeginAct \/ AssembledEndAct \/ Exec(1)

SpecAssembly == InitAssembly /\ [][NextAssembly]_vars

-----------------------------------------------------------------------------
(* Claims about the attributes of a tag *)

\* the names the dynamic attributes of the element assign
AssignedNames ==
    {input.dynamic_attributes[i].variables[1] :
        i \in 1..Len(input.dynamic_attributes)}

\* what the last dynamic attribute of that name evaluates to
LastAssigned(name) ==
    LET is == {i \in 1..Len(input.dynamic_attributes) :
                  input.dynamic_attributes[i].variables[1] = name}
    IN  input.dynamic_attributes[CHOOSE i \in is : \A j \in is : j <= i].v

\* the static attributes no dynamic attribute replaces, as literals in source
\* order
StaticRendering ==
    Concat([i \in 1..Len(input.static_attributes) |->
               LET a == input.static_attributes[i]
               IN  IF a.name \in AssignedNames THEN <<>>
                   ELSE <<" ", a.name, "=", "\"">> \o escape(a.value.s, TRUE)
                        \o <<"\"">>], 1)

\* the names in the order of the mapping: those of the static attributes, then
\* the others as they are first assigned
RECURSIVE NameOrder(_, _)
NameOrder(names, i) ==
    IF i > Len(input.dynamic_attributes) THEN names
    ELSE LET name == input.dynamic_attributes[i].variables[1]
         IN  NameOrder(IF \E k \in 1..Len(names) : names[k] = name THEN names
                       ELSE Append(names, name), i + 1)

\* the dynamic attributes with a non-null value
DynamicRendering ==
    LET names == NameOrder([i \in 1..Len(input.static_attributes) |->
                               input.static_attributes[i].name], 1)
    IN  Concat([k \in 1..Len(names) |->
                   IF names[k] \notin AssignedNames
                      \/ LastAssigned(names[k]) = None THEN <<>>
                   ELSE <<" ", names[k], "=", "\"">>
                        \o escape(BytesOf(LastAssigned(names[k])), TRUE)
                        \o <<"\"">>], 1)

\* how often the name is written as the name of an attribute
Written(name) ==
    Cardinality({p \in 1..Len(rt[1].bufs[1]) - 2 :
                    /\ rt[1].bufs[1][p] = " "
                    /\ rt[1].bufs[1][p + 1] = name
                    /\ rt[1].bufs[1][p + 2] = "="})

-----------------------------------------------------------------------------
(* Node.create_msgid: the message id derived from the body of a node *)

\* StringIO(buf): the buffer holds buf, or str(buf) when buf is no string,
\* and the position is at its start
StringIO(buf) ==
    [buf |-> IF buf.some THEN buf.s ELSE <<"N", "o", "n", "e">>, pos |-> 0]

\* StringIO.write: nothing for None or the empty string; otherwise s replaces
\* what the buffer holds from the position on and the position moves behind it
StringIOWrite(io, s) ==
    IF ~s.some \/ s.s = <<>> THEN io
    ELSE [buf |-> SubSeq(io.buf, 1, io.pos) \o s.s
                  \o SubSeq(io.buf, io.pos + Len(s.s) + 1, Len(io.buf)),
          pos |-> io.pos + Len(s.s)]

Whitespace == {" ", "\n"}

\* str.strip()
RECURSIVE Strip(_)
Strip(s) ==
    IF s = <<>> THEN s
    ELSE IF Head(s) \in Whitespace THEN Strip(Tail(s))
    ELSE IF s[Len(s)] \in Whitespace THEN Strip(SubSeq(s, 1, Len(s) - 1))
    ELSE s

\* str.replace(old, new) for an old of two characters and of one: the
\* occurrences are found from the left and do not overlap
RECURSIVE Replace2(_, _, _)
Replace2(s, old, new) ==
    IF Len(s) < 2 THEN s
    ELSE IF SubSeq(s, 1, 2) = old THEN new \o Replace2(SubSeq(s, 3, Len(s)), old, new)
    ELSE <<Head(s)>> \o Replace2(Tail(s), old, new)

Remove(s, c) == SelectSeq(s, LAMBDA x : x # c)

\* the loop of create_msgid over the children
RECURSIVE WriteChildren(_, _, _)
WriteChildren(io, children, i) ==
    IF i > Len(children) THEN io
    ELSE IF children[i].name # ""
    THEN WriteChildren(
             StringIOWrite(
                 StringIOWrite(io, PyStr(<<"$", "{", children[i].name, "}">>)),
                 children[i].tail),
             children, i + 1)
    ELSE WriteChildren(StringIOWrite(io, PyStr(ToString_(children[i]))),
                       children, i + 1)

create_msgid(n) ==
    LET msgid == Strip(WriteChildren(StringIO(n.text), n.children, 1).buf)
    IN  Remove(Replace2(msgid, <<" ", " ">>, <<" ">>), "\n")

-----------------------------------------------------------------------------
(* Scenario: the message id of a translated body *)

MsgidChars == {"a", " ", "\n"}

ThreeSpaces == <<"a", " ", " ", " ", "a">>

\* a direct child: its translation name (none: ""), and its tail
MsgidChild(name, tail) ==
    [name |-> name, tag |-> [ns |-> "", local |-> "b"], tail |-> tail]

MsgidChildren ==
    LET tails == {PyNone, PyStr(<<" ", "a">>), PyStr(<<" ", "\n", " ", "a">>)}
        kids == {MsgidChild(name, tail) : name \in {"", "x"}, tail \in tails}
    IN  {<<>>} \cup {<<k>> : k \in kids}
        \cup {<<MsgidChild("x", PyStr(<<" ">>)), k>> : k \in kids}

InitMsgid ==
    /\ input \in
         [sc : {"msgid"},
          text : {PyNone, PyStr(ThreeSpaces)}
                 \cup {PyStr(s) : s \in UNION {[1..k -> MsgidChars] :
                                                 k \in 1..MaxLen}},
          children : MsgidChildren,
          translate : {"", "m"},
          msgid : {<<"?">>},
          unicode_required_flag : {FALSE}]
    /\ stream = NewStream
    /\ phase = "begin"
    /\ rt = [r \in Renders |-> InitRt]
    /\ repeat = [x \in ProgNames |-> NoEntry]

\* Node.serialize, translate body: the message id given, or else derived
MsgidAct ==
    /\ input.sc = "msgid" /\ phase = "begin"
    /\ input' = [input EXCEPT !.msgid = IF input.translate # ""
                                        THEN <<input.translate>>
                                        ELSE create_msgid(input)]
    /\ phase' = "end"
    /\ UNCHANGED <<stream, rt, repeat>>

SpecMsgid == InitMsgid /\ [][MsgidAct]_vars

-----------------------------------------------------------------------------
(* Claims about the derived message id *)

\* the body as the document has it: the literal text, then for each direct
\* child its placeholder and tail, or the child as written
RECURSIVE BodyText(_, _)
BodyText(children, i) ==
    IF i > Len(children) THEN <<>>
    ELSE (IF children[i].name # ""
          THEN <<"$", "{", children[i].name, "}">> \o TextOf(children[i].tail)
          ELSE ToString_(children[i]))
         \o BodyText(children, i + 1)

NoWhitespace(s) == SelectSeq(s, LAMBDA x : x \notin Whitespace)

Derived == input.sc = "msgid" /\ phase = "end" /\ input.translate = ""

\* C30 (as claimed): the derived id is the literal text of the node followed
\* in document order by a placeholder for each named direct child, trimmed and
\* with its whitespace collapsed: it has the characters of that body other
\* than whitespace, no newline, and no two spaces in a row.
C30_MsgidCollapsed ==
    Derived =>
        /\ NoWhitespace(input.msgid)
              = NoWhitespace(TextOf(input.text) \o BodyText(input.children, 1))
        /\ \A p \in 1..Len(input.msgid) : input.msgid[p] # "\n"
        /\ \A p \in 1..Len(input.msgid) - 1 :
              ~(input.msgid[p] = " " /\ input.msgid[p + 1] = " ")

\* the derived id never holds a newline, and begins and ends with neither a
\* space nor a newline
C30_TrimmedNoNewline ==
    Derived =>
        /\ \A p \in 1..Len(input.msgid) : input.msgid[p] # "\n"
        /\ input.msgid # <<>> =>
              input.msgid[1] # " " /\ input.msgid[Len(input.msgid)] # " "

\* a node without children: the derived id has the characters of the text
C30_TextAlone ==
    (Derived /\ input.children = <<>> /\ input.text.some) =>
        NoWhitespace(input.msgid) = NoWhitespace(input.text.s)

\* a text with three spaces in a row: two of them stay
C30_DoubleSpace ==
    /\ Derived /\ input.children = <<>>
    /\ input.text = PyStr(ThreeSpaces)
    /\ input.msgid = <<"a", " ", " ", "a">>
    /\ \E p \in 1..Len(input.msgid) - 1 :
          input.msgid[p] = " " /\ input.msgid[p + 1] = " "

\* a text before a named child: the placeholder is written over it
C30_TextOverwritten ==
    /\ Derived
    /\ input.text = PyStr(<<"a", "a", "a", "a">>)
    /\ input.children = <<MsgidChild("x", PyNone)>>
    /\ input.msgid = <<"$", "{", "x", "}">>

\* a node without text: the derived id is the word None
C30_NoneText ==
    /\ Derived
    /\ ~input.text.some /\ input.children = <<>>
    /\ input.msgid = <<"N", "o", "n", "e">>

\* a newline between two spaces in the tail of a named child: both spaces stay
C30_SpacesAroundNewline ==
    /\ Derived
    /\ input.text = PyStr(<<"a">>)
    /\ input.children = <<MsgidChild("x", PyStr(<<" ", "\n", " ", "a">>))>>
    /\ input.msgid = <<"$", "{", "x", "}", " ", " ", "a">>

====
